---- MODULE Spec2Model ----
(***************************************************************************)
(* Verification model of the SGServers Discord bot (ssiwm/render).         *)
(*                                                                         *)
(* Two subsystems are modelled, each with its own specification:           *)
(*   Spec       the in-memory daily rate limiter of src/index.js together  *)
(*              with the /ask, /ask-pro and /limits branches of the        *)
(*              interactionCreate handler that drive it, several handler   *)
(*              invocations being suspended at their awaits at the same    *)
(*              time;                                                      *)
(*   ChunkSpec  the chunkText loop, in the two forms the repository has:   *)
(*              src/kb/chunk.js and src/unnamed/part_004 (src/kb/kb.js     *)
(*              has the same loop as part_004).                            *)
(***************************************************************************)
EXTENDS Integers, Sequences, FiniteSets, Bags, TLC

(***************************************************************************)
(* Bounds of the model.                                                    *)
(***************************************************************************)
\* LIMITS (src/index.js:45) is { GLOBAL_PER_DAY: 50, USER_PER_DAY: 5,
\* ELEVATED_PER_DAY: 20 }.  The limiter compares counters with the caps and
\* nothing else, so the caps are scaled down, keeping their order
\* USER_PER_DAY < ELEVATED_PER_DAY < GLOBAL_PER_DAY and keeping the global cap
\* within reach of the users' budgets (here of one user's two budgets; in the
\* source of two users', 2 * (5 + 20) = 50).
GLOBAL_PER_DAY == 3
USER_PER_DAY == 1
ELEVATED_PER_DAY == 2
\* Days are numbered 0 .. MaxDay; the UTC date string is modelled by its number.
MaxDay == 1
\* chunkText is run on every text of at most MaxLen characters, with every
\* max in 1 .. MaxChunk and every overlap in 0 .. MaxChunk (the defaults are
\* max = 900, overlap = 100 in chunk.js and 1200, 150 in part_004 and kb.js).
MaxLen == 5
MaxChunk == 3
\* The knowledge base.  chunkText's defaults (max = 900, overlap = 100 in
\* chunk.js; 1200, 150 in part_004 and kb.js) and the ingestion batch size
\* (const BATCH = 32) are scaled down, keeping 0 < overlap < max and keeping
\* documents of several batches, the last one partial, within reach.
ChunkMax == 2
ChunkOverlap == 1
BATCH == 2
\* Documents have at most DocLen + 1 characters; /kb-add refuses the ones of
\* more than DocLen (const MAX_CHARS = 20000).
DocLen == 6
\* A search asks the store for at most MaxHits hits (limit = 5).
MaxHits == 3
\* Knowledge-base operations are run one after another, MaxOps of them.
MaxOps == 2
\* The transport's payload limit the answers are cut to (1900 characters),
\* scaled down; the chat model's outputs have up to MaxPayload + 2 characters.
MaxPayload == 3
\* How many times ensureKbCollection is called again after its first run.
MaxBoots == 3
\* The status monitor: automatic runs, /status commands, changes of a source.
MaxRuns == 2
MaxCmds == 1
MaxFlips == 2
\* How many pinned messages the channel of /kb-import-pins has at most.
MaxPins == 2

Users == {"u1", "owner"}
\* process.env.OWNER_DISCORD_ID
OWNER_ID == "owner"
\* The handler invocations that can be suspended at an await at the same time.
Invocations == {"first", "second"}

VARIABLES
  today,          \* the wall clock's UTC date, what dayKeyNow() returns
  globalDayKey,   \* let globalDayKey
  globalUsed,     \* let globalUsed
  userDaily,      \* const userDaily = new Map(): userId -> { used, usedPro }
  req,            \* the invocations of the interactionCreate handler that are
                  \* suspended at an await: a bag of records
  consumedToday,  \* history: non-bypass consume calls made since the date last
                  \* changed; -1 in the specifications that keep no count
  impl,           \* which chunkText is running
  text,           \* chunkText's argument
  max,            \* chunkText's max / chunkSize
  overlap,        \* chunkText's overlap
  t,              \* chunk.js: const t (the text without carriage returns)
  i,              \* let i
  out,            \* const out / chunks
  starts,         \* history: the value of i at each out.push
  cpc,            \* position in chunkText: "idle" (not called), "call", "loop",
                  \* "done" (returned), "oom" (the array outgrew the heap)
  qdrant,         \* part_001 / qdrant.js: export const qdrant ("null" or "client")
  KB_READY,       \* part_004 / kb.js: let KB_READY
  kop,            \* the knowledge-base operation that is running, or "none"
  kpc,            \* its position: the await it is suspended at, or how it ended
  title,          \* its title argument
  chunks,         \* const chunks
  bi,             \* /kb-add: the batch loop's let i
  inserted,       \* /kb-add: let inserted
  points,         \* const points of the upsert that is awaited
  calls,          \* history: the provider and store calls the operation issued
  result,         \* what the operation returned, threw or replied
  stored,         \* the store: the points a search can see
  lagging,        \* the store: points acknowledged but not yet applied
  nextId,         \* history: how many ids randomUUID has handed out
  ops,            \* history: how many operations have been started
  ask,            \* the /ask or /ask-pro request followed with its texts and
                  \* timers: a record (see the answer path below)
  boot,           \* the knowledge base's start-up: a record (see start-up below)
  wt,             \* one call of withTimeout: a record (see withTimeout below)
  auto,           \* the status monitor: const lastStatus, the sources, the run
                  \* of postIfChanged and the /status command (see below)
  imp             \* one /kb-import-pins command: a record (see below)

limiterVars == <<today, globalDayKey, globalUsed, userDaily, req, consumedToday>>
chunkVars == <<impl, text, max, overlap, t, i, out, starts, cpc>>
kbVars == <<qdrant, KB_READY, kop, kpc, title, chunks, bi, inserted, points,
            calls, result, stored, lagging, nextId, ops>>
vars == <<today, globalDayKey, globalUsed, userDaily, req, consumedToday,
          impl, text, max, overlap, t, i, out, starts, cpc,
          qdrant, KB_READY, kop, kpc, title, chunks, bi, inserted, points,
          calls, result, stored, lagging, nextId, ops, ask, boot, wt,
          auto, imp>>
\* What the limiter's and the chunker's steps leave alone.
nonLimiterVars == <<chunkVars, kbVars, ask, boot, wt, auto, imp>>
nonChunkVars == <<limiterVars, kbVars, ask, boot, wt, auto, imp>>
outsideKb == <<limiterVars, ask, boot, wt, auto, imp>>
outsideAsk == <<chunkVars, kbVars, boot, wt, auto, imp>>

Max2(a, b) == IF a >= b THEN a ELSE b
Min2(a, b) == IF a <= b THEN a ELSE b

(***************************************************************************)
(* The rate limiter: src/index.js lines 89-125.                            *)
(***************************************************************************)
\* userDaily.get(userId) || { used: 0, usedPro: 0 }
ZeroEntry == [used |-> 0, usedPro |-> 0]
EmptyMap == [u \in {} |-> ZeroEntry]
Entry(m, userId) == IF userId \in DOMAIN m THEN m[userId] ELSE ZeroEntry
MapSet(m, userId, e) ==
  [u \in DOMAIN m \cup {userId} |-> IF u = userId THEN e ELSE m[u]]

\* The limiter's three module-level variables as one value.
Limiter == [globalDayKey |-> globalDayKey, globalUsed |-> globalUsed,
            userDaily |-> userDaily]
SetLimiter(L) ==
  /\ globalDayKey' = L.globalDayKey
  /\ globalUsed' = L.globalUsed
  /\ userDaily' = L.userDaily

dayKeyNow == today

resetKeepsUsers(L, k) ==
  IF k # L.globalDayKey
    THEN [globalDayKey |-> k, globalUsed |-> 0, userDaily |-> L.userDaily]
    ELSE L

resetAlways(L, k) ==
  [globalDayKey |-> k, globalUsed |-> 0, userDaily |-> EmptyMap]

resetIfNewDay(L, k) ==
  IF k # L.globalDayKey
    THEN [globalDayKey |-> k, globalUsed |-> 0, userDaily |-> EmptyMap]
    ELSE L

\* canUse's return value, on the limiter state L that resetIfNewDay left:
\* "ok" for { ok: true }, otherwise the reason of { ok: false, reason }.
canUseUserFirst(L, userId, elevated, isOwnerHelper) ==
  LET e == Entry(L.userDaily, userId)
      per == IF elevated THEN ELEVATED_PER_DAY ELSE USER_PER_DAY
      used == IF elevated THEN e.usedPro ELSE e.used
  IN IF isOwnerHelper THEN "ok"
     ELSE IF used >= per THEN "user"
     ELSE IF L.globalUsed >= GLOBAL_PER_DAY THEN "global"
     ELSE "ok"

canUseSharedBudget(L, userId, elevated, isOwnerHelper) ==
  IF isOwnerHelper THEN "ok"
  ELSE IF L.globalUsed >= GLOBAL_PER_DAY THEN "global"
  ELSE LET e == Entry(L.userDaily, userId)
           per == IF elevated THEN ELEVATED_PER_DAY ELSE USER_PER_DAY
       IN IF e.used + e.usedPro >= per THEN "user" ELSE "ok"

canUse(L, userId, elevated, isOwnerHelper) ==
  IF isOwnerHelper THEN "ok"
  ELSE IF L.globalUsed >= GLOBAL_PER_DAY THEN "global"
  ELSE LET e == Entry(L.userDaily, userId)
           per == IF elevated THEN ELEVATED_PER_DAY ELSE USER_PER_DAY
           used == IF elevated THEN e.usedPro ELSE e.used
       IN IF used >= per THEN "user" ELSE "ok"

consumeBothCounters(L, userId, elevated, isOwnerHelper) ==
  IF isOwnerHelper THEN L
  ELSE LET e == Entry(L.userDaily, userId)
           e2 == [used |-> e.used + 1, usedPro |-> e.usedPro + 1]
       IN [L EXCEPT !.globalUsed = L.globalUsed + 1,
                    !.userDaily = MapSet(L.userDaily, userId, e2)]

consumeFreshEntry(L, userId, elevated, isOwnerHelper) ==
  IF isOwnerHelper THEN L
  ELSE LET e == Entry(L.userDaily, userId)
           e2 == IF elevated THEN [used |-> 0, usedPro |-> e.usedPro + 1]
                             ELSE [used |-> e.used + 1, usedPro |-> 0]
       IN [L EXCEPT !.globalUsed = L.globalUsed + 1,
                    !.userDaily = MapSet(L.userDaily, userId, e2)]

consume(L, userId, elevated, isOwnerHelper) ==
  IF isOwnerHelper THEN L
  ELSE LET e == Entry(L.userDaily, userId)
           e2 == IF elevated THEN [e EXCEPT !.usedPro = e.usedPro + 1]
                             ELSE [e EXCEPT !.used = e.used + 1]
       IN [L EXCEPT !.globalUsed = L.globalUsed + 1,
                    !.userDaily = MapSet(L.userDaily, userId, e2)]

remainingForUnclamped(L, userId, elevated) ==
  LET e == Entry(L.userDaily, userId)
      per == IF elevated THEN ELEVATED_PER_DAY ELSE USER_PER_DAY
      used == IF elevated THEN e.usedPro ELSE e.used
  IN per - used

\* remainingFor's return value, on the limiter state resetIfNewDay left.
remainingFor(L, userId, elevated) ==
  LET e == Entry(L.userDaily, userId)
      per == IF elevated THEN ELEVATED_PER_DAY ELSE USER_PER_DAY
      used == IF elevated THEN e.usedPro ELSE e.used
  IN Max2(0, per - used)


(***************************************************************************)
(* The interactionCreate handler: src/index.js lines 430-677, the /limits  *)
(* branch (440-455) and the /ask, /ask-pro branch (612-672).  An           *)
(* invocation runs without interruption from one await to the next; each   *)
(* action below is one such run.  A suspended invocation is a record:      *)
(*   pc       the await it is suspended at: "fetch", "defer", "kb", "llm", *)
(*            "lfetch", or "reply" for the final reply                     *)
(*   cmd      interaction.commandName                                      *)
(*   user     interaction.user.id                                          *)
(*   bypass   isOwnerHelper                                                *)
(*   gate     what canUse returned to it ("none" before the call)          *)
(*   llm      how many times it has called askLLM                          *)
(*   consumed how many times it has called consume                         *)
(*   didReset whether its canUse / remainingFor changed the day key        *)
(*   outcome  which reply it sent                                          *)
(*   rem      /limits: <<remUser, remPro, remGlobal>>                      *)
(***************************************************************************)
New(c, u) == [pc |-> "fetch", cmd |-> c, user |-> u, bypass |-> FALSE,
              gate |-> "none", llm |-> 0, consumed |-> 0, didReset |-> FALSE,
              outcome |-> "none", rem |-> <<>>]

InFlight == BagToSet(req)
Enter(r) == req' = req (+) SetToBag({r})
Move(r, r2) == req' = (req (-) SetToBag({r})) (+) SetToBag({r2})
Leave(r) == req' = req (-) SetToBag({r})

\* if (!limit.ok) return interaction.reply(...)      (src/index.js:627)
gateOpensAlways(limit) == TRUE
gateOpens(limit) == limit = "ok"

\* The wall clock passes midnight UTC.
Tick ==
  /\ today < MaxDay
  /\ today' = today + 1
  /\ consumedToday' = IF consumedToday < 0 THEN consumedToday ELSE 0
  /\ UNCHANGED <<globalDayKey, globalUsed, userDaily, req>>
  /\ UNCHANGED nonLimiterVars

\* /ask or /ask-pro arrives: the handler runs up to
\* await interaction.guild.members.fetch(...)
AskStart(u, c) ==
  /\ BagCardinality(req) < Cardinality(Invocations)
  /\ Enter(New(c, u))
  /\ UNCHANGED <<today, globalDayKey, globalUsed, userDaily, consumedToday>>
  /\ UNCHANGED nonLimiterVars

\* The member is fetched: role checks, canUse, and either the denial reply or
\* await interaction.deferReply()
AskFetched(r, hasProRole, helperRole) ==
  /\ r.pc = "fetch" /\ r.cmd # "limits"
  /\ LET isPro == r.cmd = "ask-pro"
         isOwnerHelper == helperRole /\ r.user = OWNER_ID
     IN IF isPro /\ ~hasProRole /\ ~isOwnerHelper
          THEN /\ Move(r, [r EXCEPT !.pc = "reply", !.outcome = "noperm"])
               /\ UNCHANGED <<globalDayKey, globalUsed, userDaily>>
          ELSE LET L1 == resetIfNewDay(Limiter, dayKeyNow)
                   limit == canUse(L1, r.user, isPro, isOwnerHelper)
                   r1 == [r EXCEPT !.bypass = isOwnerHelper, !.gate = limit,
                                   !.didReset = (L1.globalDayKey # globalDayKey)]
               IN /\ SetLimiter(L1)
                  /\ IF gateOpens(limit)
                       THEN Move(r, [r1 EXCEPT !.pc = "defer"])
                       ELSE Move(r, [r1 EXCEPT !.pc = "reply", !.outcome = "denied"])
  /\ UNCHANGED <<today, consumedToday>>
  /\ UNCHANGED nonLimiterVars

\* members.fetch rejects: the outer catch replies through safeReply.
FetchFailed(r) ==
  /\ r.pc = "fetch"
  /\ Move(r, [r EXCEPT !.pc = "reply", !.outcome = "unexpected"])
  /\ UNCHANGED <<today, globalDayKey, globalUsed, userDaily, consumedToday>>
  /\ UNCHANGED nonLimiterVars

\* deferReply resolved: await kbSearch(msg, 5)
AskDeferred(r) ==
  /\ r.pc = "defer"
  /\ Move(r, [r EXCEPT !.pc = "kb"])
  /\ UNCHANGED <<today, globalDayKey, globalUsed, userDaily, consumedToday>>
  /\ UNCHANGED nonLimiterVars

\* deferReply rejects, outside the inner try: the outer catch replies.
AskDeferFailed(r) ==
  /\ r.pc = "defer"
  /\ Move(r, [r EXCEPT !.pc = "reply", !.outcome = "unexpected"])
  /\ UNCHANGED <<today, globalDayKey, globalUsed, userDaily, consumedToday>>
  /\ UNCHANGED nonLimiterVars

\* kbSearch resolved: the messages are built and askLLM is called.
AskKbDone(r) ==
  /\ r.pc = "kb"
  /\ Move(r, [r EXCEPT !.pc = "llm", !.llm = @ + 1])
  /\ UNCHANGED <<today, globalDayKey, globalUsed, userDaily, consumedToday>>
  /\ UNCHANGED nonLimiterVars

\* kbSearch rejects: the inner catch replies with the error text.
AskKbFailed(r) ==
  /\ r.pc = "kb"
  /\ Move(r, [r EXCEPT !.pc = "reply", !.outcome = "error"])
  /\ UNCHANGED <<today, globalDayKey, globalUsed, userDaily, consumedToday>>
  /\ UNCHANGED nonLimiterVars

\* askLLM resolved: consume, logUsage (which only reads the counters and has
\* no await of its own), then interaction.editReply(text).
AskLlmDone(r) ==
  /\ r.pc = "llm"
  /\ SetLimiter(consume(Limiter, r.user, r.cmd = "ask-pro", r.bypass))
  /\ Move(r, [r EXCEPT !.pc = "reply", !.outcome = "answer", !.consumed = @ + 1])
  /\ consumedToday' = IF r.bypass \/ consumedToday < 0
                        THEN consumedToday ELSE consumedToday + 1
  /\ UNCHANGED today
  /\ UNCHANGED nonLimiterVars

AskLlmFailedCharged(r) ==
  /\ r.pc = "llm"
  /\ SetLimiter(consume(Limiter, r.user, r.cmd = "ask-pro", r.bypass))
  /\ Move(r, [r EXCEPT !.pc = "reply", !.outcome = "error"])
  /\ UNCHANGED <<today, consumedToday>>
  /\ UNCHANGED nonLimiterVars

\* askLLM rejects: the inner catch replies with the error text; no consume.
AskLlmFailed(r) ==
  /\ r.pc = "llm"
  /\ Move(r, [r EXCEPT !.pc = "reply", !.outcome = "error"])
  /\ UNCHANGED <<today, globalDayKey, globalUsed, userDaily, consumedToday>>
  /\ UNCHANGED nonLimiterVars

\* /limits arrives: resetIfNewDay(), then await members.fetch(...)
LimitsStart(u) ==
  /\ BagCardinality(req) < Cardinality(Invocations)
  /\ LET L1 == resetIfNewDay(Limiter, dayKeyNow)
     IN /\ SetLimiter(L1)
        /\ Enter([New("limits", u) EXCEPT
                    !.didReset = (L1.globalDayKey # globalDayKey)])
  /\ UNCHANGED <<today, consumedToday>>
  /\ UNCHANGED nonLimiterVars

\* The member is fetched: remainingFor for the two budgets, the global rest,
\* and the reply.
LimitsFetched(r, hasProRole) ==
  /\ r.pc = "fetch" /\ r.cmd = "limits"
  /\ LET L1 == resetIfNewDay(Limiter, dayKeyNow)
         remUser == remainingFor(L1, r.user, FALSE)
         remPro == IF hasProRole THEN remainingFor(L1, r.user, TRUE) ELSE 0
         remGlobal == Max2(0, GLOBAL_PER_DAY - L1.globalUsed)
     IN /\ SetLimiter(L1)
        /\ Move(r, [r EXCEPT !.pc = "reply", !.outcome = "limits",
                      !.rem = <<remUser, remPro, remGlobal>>,
                      !.didReset = (r.didReset \/ L1.globalDayKey # globalDayKey)])
  /\ UNCHANGED <<today, consumedToday>>
  /\ UNCHANGED nonLimiterVars

\* The reply (reply, editReply or safeReply) settles and the invocation ends.
ReplySettled(r) ==
  /\ r.pc = "reply"
  /\ Leave(r)
  /\ UNCHANGED <<today, globalDayKey, globalUsed, userDaily, consumedToday>>
  /\ UNCHANGED nonLimiterVars

\* The chunker at rest, while the limiter runs.
ChunkIdle ==
  /\ impl = "none" /\ text = <<>> /\ max = 1 /\ overlap = 0
  /\ t = <<>> /\ i = 0 /\ out = <<>> /\ starts = <<>> /\ cpc = "idle"

\* The knowledge base at rest: nothing configured, nothing called.
\* A result is what an operation returned ("value"), threw ("throw") or handed
\* to the transport ("disabled", "toobig", "added", "error"): ok is the ok field
\* or whether the reply reports success, count the chunk count it states (no
\* element when it states none), hits the hits it returns.
NoResult == [kind |-> "none", ok |-> FALSE, count |-> {}, hits |-> <<>>]
KbLocalsIdle ==
  /\ kop = "none" /\ kpc = "idle" /\ title = "" /\ chunks = <<>>
  /\ bi = 0 /\ inserted = 0 /\ points = <<>> /\ calls = <<>>
  /\ result = NoResult
KbIdle ==
  /\ qdrant = "null" /\ KB_READY = FALSE
  /\ KbLocalsIdle
  /\ stored = <<>> /\ lagging = <<>> /\ nextId = 0 /\ ops = 0

\* No request is being followed, and no error was caught.
NoErr == [code |-> "", ncode |-> "", status |-> -1, nmsg |-> "", msg |-> ""]
NoReply == [kind |-> "none", text |-> <<>>]
NoAsk ==
  [impl |-> "none", pc |-> "idle", user |-> "", isPro |-> FALSE,
   bypass |-> FALSE, gate |-> "none",
   kb |-> "none", kbTimer |-> "none", kbOut |-> "none",
   llm |-> "none", llmTimer |-> "none", llmOut |-> "none",
   context |-> "none", completion |-> <<>>, reply |-> NoReply,
   transport |-> "none", err |-> NoErr, notice |-> "none"]

\* No start-up is being followed, and no call of withTimeout.
NoBoot == [prog |-> "none", pc |-> "idle", ok |-> "none", colls |-> {},
           calls |-> <<>>, failed |-> FALSE,
           n |-> 0, from |-> 0, won |-> FALSE, created |-> 0]
NoOutcome == [kind |-> "none", of |-> "", after |-> ""]
NoRace == [pc |-> "idle", label |-> "", ms |-> "", p |-> "none",
           outcome |-> NoOutcome, fin |-> "pending", finSeen |-> FALSE,
           timer |-> "none", timeout |-> "pending", timeoutSeen |-> FALSE,
           race |-> "pending", result |-> NoOutcome, first |-> "none"]
\* No status run or /status command is under way and lastStatus is empty;
\* no /kb-import-pins is being followed.
Sources == <<"game:arkse:A", "http:site">>
SourceSet == {Sources[k] : k \in 1 .. Len(Sources)}
Unset == [s \in SourceSet |-> "unset"]
NoAuto ==
  [up |-> [s \in SourceSet |-> TRUE], lastStatus |-> Unset,
   pc |-> "idle", k |-> 0, before |-> Unset, seen |-> Unset, prev |-> Unset,
   runs |-> 0, posted |-> FALSE, cmd |-> 0, cmds |-> 0, flips |-> 0]
NoImp ==
  [pc |-> "idle", list |-> <<>>, k |-> 0, ok |-> 0, fail |-> 0, kept |-> 0,
   reply |-> "none"]
ExtrasIdle == auto = NoAuto /\ imp = NoImp

OthersIdle == ask = NoAsk /\ boot = NoBoot /\ wt = NoRace /\ ExtrasIdle

\* The module is loaded on day 0: globalDayKey = new Date()..., globalUsed = 0,
\* userDaily = new Map(), and no interaction has arrived.
LimiterInit ==
  /\ today = 0
  /\ globalDayKey = dayKeyNow
  /\ globalUsed = 0
  /\ userDaily = EmptyMap
  /\ req = EmptyBag

Init == LimiterInit /\ consumedToday = -1 /\ ChunkIdle /\ KbIdle /\ OthersIdle

\* The same program, with the day's consume calls counted.
CountInit == LimiterInit /\ consumedToday = 0 /\ ChunkIdle /\ KbIdle /\ OthersIdle

Next ==
     \/ Tick
     \/ \E u \in Users, c \in {"ask", "ask-pro"} : AskStart(u, c)
     \/ \E r \in InFlight, hasProRole \in BOOLEAN, helperRole \in BOOLEAN :
          AskFetched(r, hasProRole, helperRole)
     \/ \E r \in InFlight : FetchFailed(r)
     \/ \E r \in InFlight : AskDeferred(r)
     \/ \E r \in InFlight : AskDeferFailed(r)
     \/ \E r \in InFlight : AskKbDone(r)
     \/ \E r \in InFlight : AskKbFailed(r)
     \/ \E r \in InFlight : AskLlmDone(r)
     \/ \E r \in InFlight : AskLlmFailed(r)
     \/ \E u \in Users : LimitsStart(u)
     \/ \E r \in InFlight, hasProRole \in BOOLEAN : LimitsFetched(r, hasProRole)
     \/ \E r \in InFlight : ReplySettled(r)

Spec == Init /\ [][Next]_vars

CountSpec == CountInit /\ [][Next]_vars

(***************************************************************************)
(* Properties of the rate limiter and of the /ask handler.                 *)
(***************************************************************************)
\* The invocation that took the step, before (r) and after (r2).
Moved(r, r2) ==
  /\ r # r2
  /\ CopiesIn(r, req') < CopiesIn(r, req)
  /\ CopiesIn(r2, req') > CopiesIn(r2, req)

\* The step was r's return from members.fetch into canUse, which answered r2.gate.
RanCanUse(r, r2) ==
  /\ Moved(r, r2)
  /\ r.pc = "fetch" /\ r.cmd # "limits" /\ r2.gate # "none"

\* The step was r's return from askLLM into consume.
RanConsume(r, r2) ==
  /\ Moved(r, r2)
  /\ r.pc = "llm" /\ r2.consumed = r.consumed + 1

\* C1: within one UTC day globalUsed never exceeds GLOBAL_PER_DAY, no user's
\* standard counter exceeds USER_PER_DAY and no user's elevated counter exceeds
\* ELEVATED_PER_DAY, however the in-flight /ask and /ask-pro handlers interleave.
C1_CapsNeverExceeded ==
  /\ globalUsed <= GLOBAL_PER_DAY
  /\ \A u \in DOMAIN userDaily :
       /\ userDaily[u].used <= USER_PER_DAY
       /\ userDaily[u].usedPro <= ELEVATED_PER_DAY

\* The decision table of C2, on the counters canUse read.
C2_Table(gUsed, daily, userId, elevated, bypass) ==
  LET relevant == IF userId \in DOMAIN daily
                    THEN (IF elevated THEN daily[userId].usedPro ELSE daily[userId].used)
                    ELSE 0
      cap == IF elevated THEN ELEVATED_PER_DAY ELSE USER_PER_DAY
  IN CASE bypass -> "ok"
       [] ~bypass /\ gUsed >= GLOBAL_PER_DAY -> "global"
       [] ~bypass /\ gUsed < GLOBAL_PER_DAY /\ relevant >= cap -> "user"
       [] OTHER -> "ok"

\* C2: canUse returns ok under bypass; otherwise reason 'global' when globalUsed
\* has reached GLOBAL_PER_DAY; otherwise reason 'user' when the requester's
\* relevant counter has reached its cap; otherwise ok.  When both caps are
\* reached the reason is 'global'.
C2_CanUseDecision ==
  [][\A r \in BagToSet(req), r2 \in BagToSet(req') :
       RanCanUse(r, r2) =>
         r2.gate = C2_Table(globalUsed', userDaily', r.user, r.cmd = "ask-pro", r2.bypass)]_vars

\* C2's case: a request was denied with reason 'global' while the requester's
\* own budget was used up as well.  (On day 0 with globalUsed at the cap exactly,
\* nothing was consumed since the denial.)
C2_Witness ==
  \E r \in InFlight :
    /\ r.gate = "global" /\ r.cmd = "ask-pro" /\ r.pc = "reply"
    /\ today = 0 /\ globalUsed = GLOBAL_PER_DAY
    /\ Entry(userDaily, r.user).usedPro >= ELEVATED_PER_DAY

\* C3: once GLOBAL_PER_DAY non-bypass consume calls have happened on the current
\* day, every further canUse on that day answers 'global' to every non-bypass
\* user and ok under bypass.
C3_GlobalCapDenies ==
  consumedToday >= GLOBAL_PER_DAY =>
    \A u \in Users, e \in BOOLEAN :
      /\ canUse(resetIfNewDay(Limiter, dayKeyNow), u, e, FALSE) = "global"
      /\ canUse(resetIfNewDay(Limiter, dayKeyNow), u, e, TRUE) = "ok"

\* C4: when canUse or remainingFor runs while the stored day key differs from
\* today's date, the global counter is zero, the per-user counters are cleared
\* and the day key is today before the decision is evaluated: canUse allows the
\* request and remainingFor reports the full budgets.
C4_DayRollover ==
  [][\A r \in BagToSet(req), r2 \in BagToSet(req') :
       (Moved(r, r2) /\ r.pc = "fetch" /\ globalDayKey # today
          /\ (r2.gate # "none" \/ r2.outcome = "limits")) =>
         /\ globalDayKey' = today
         /\ globalUsed' = 0
         /\ userDaily' = EmptyMap
         /\ r2.gate # "none" => r2.gate = "ok"
         /\ r2.outcome = "limits" =>
              /\ r2.rem[1] = USER_PER_DAY
              /\ r2.rem[2] \in {0, ELEVATED_PER_DAY}
              /\ r2.rem[3] = GLOBAL_PER_DAY]_vars

\* C4's case: a user whose request was denied (the denial is still being sent)
\* asks again after midnight; this canUse resets the counters and allows it.
C4_Witness ==
  \E r \in InFlight, r2 \in InFlight :
    /\ r.gate = "user" /\ r.outcome = "denied" /\ ~r.didReset
    /\ r2.user = r.user /\ r2.cmd = r.cmd
    /\ r2.gate = "ok" /\ r2.didReset /\ r2.pc = "defer"
    /\ globalDayKey = today /\ today > 0

\* C5: consume changes nothing under bypass; otherwise it adds one to globalUsed
\* and one to the requester's relevant counter, and leaves the requester's other
\* counter, every other user's counters and the day key unchanged.
C5_ConsumeEffect ==
  [][\A r \in BagToSet(req), r2 \in BagToSet(req') :
       RanConsume(r, r2) =>
         IF r.bypass
           THEN /\ globalUsed' = globalUsed
                /\ userDaily' = userDaily
                /\ globalDayKey' = globalDayKey
           ELSE LET before == Entry(userDaily, r.user)
                    after == Entry(userDaily', r.user)
                IN /\ globalUsed' = globalUsed + 1
                   /\ globalDayKey' = globalDayKey
                   /\ r.user \in DOMAIN userDaily'
                   /\ IF r.cmd = "ask-pro"
                        THEN after.usedPro = before.usedPro + 1 /\ after.used = before.used
                        ELSE after.used = before.used + 1 /\ after.usedPro = before.usedPro
                   /\ \A u \in Users \ {r.user} :
                        /\ u \in DOMAIN userDaily' <=> u \in DOMAIN userDaily
                        /\ Entry(userDaily', u) = Entry(userDaily, u)]_vars

\* C5's case: a non-bypass /ask-pro request has consumed; the requester had used
\* the standard budget before and another user has counters of their own.
C5_Witness ==
  \E r \in InFlight :
    /\ r.consumed = 1 /\ ~r.bypass /\ r.cmd = "ask-pro" /\ r.outcome = "answer"
    /\ Entry(userDaily, r.user).used > 0
    /\ \E u \in DOMAIN userDaily : u # r.user /\ userDaily[u].usedPro > 0

\* C6: in each /ask or /ask-pro request the chat model is called only after
\* canUse returned ok, consume is called only after a successful canUse and after
\* the chat-model call, at most once; a request canUse denied calls neither.
C6_GateBeforeLlmAndConsume ==
  \A r \in InFlight :
    /\ r.llm > 0 => r.gate = "ok"
    /\ r.consumed > 0 => r.gate = "ok" /\ r.llm > 0
    /\ r.consumed <= 1
    /\ r.llm <= 1
    /\ r.gate \in {"global", "user"} => r.llm = 0 /\ r.consumed = 0

\* C6's case: one request has been granted, answered and charged while another
\* one, denied, is sending its denial.
C6_Witness ==
  \E r \in InFlight, r2 \in InFlight :
    /\ r.gate = "ok" /\ r.llm = 1 /\ r.consumed = 1
    /\ r2.gate \in {"global", "user"} /\ r2.outcome = "denied"

\* The counter remainingFor and canUse read for userId, in the limiter state L.
Relevant(L, userId, elevated) ==
  IF userId \in DOMAIN L.userDaily
    THEN (IF elevated THEN L.userDaily[userId].usedPro ELSE L.userDaily[userId].used)
    ELSE 0
Cap(elevated) == IF elevated THEN ELEVATED_PER_DAY ELSE USER_PER_DAY

\* C24: remainingFor(userId, elevated) returns max(0, cap - used) for the
\* requester's relevant counter, cap being ELEVATED_PER_DAY when elevated and
\* USER_PER_DAY otherwise: never a negative number, zero also when the counter
\* has passed its cap, and the full cap for a user with no usage today; the
\* numbers /limits replies with are such values.
C24_RemainingClamped ==
  /\ \A u \in Users, e \in BOOLEAN :
       LET L1 == resetIfNewDay(Limiter, dayKeyNow)
           used == Relevant(L1, u, e)
           rem == remainingFor(L1, u, e)
       IN /\ rem >= 0
          /\ used <= Cap(e) => rem = Cap(e) - used
          /\ used > Cap(e) => rem = 0
          /\ u \notin DOMAIN L1.userDaily => rem = Cap(e)
  /\ \A r \in InFlight :
       r.outcome = "limits" =>
         /\ r.rem[1] \in 0 .. USER_PER_DAY
         /\ r.rem[2] \in 0 .. ELEVATED_PER_DAY
         /\ r.rem[3] \in 0 .. GLOBAL_PER_DAY

\* C24's case: /limits answered a user whose standard counter has passed its
\* cap (two requests were granted before either was charged) with zero left.
C24_Witness ==
  \E r \in InFlight :
    /\ r.outcome = "limits" /\ r.rem[1] = 0 /\ ~r.didReset
    /\ globalDayKey = today
    /\ Entry(userDaily, r.user).used > USER_PER_DAY

\* C25: the two budgets of a user are independent.  While the global cap is
\* not reached, a user whose standard counter has reached USER_PER_DAY is
\* allowed with elevated = true as long as the elevated counter is below
\* ELEVATED_PER_DAY, and a user whose elevated counter has reached its cap is
\* allowed with elevated = false as long as the standard counter is below its.
C25_BudgetsIndependent ==
  \A u \in Users :
    LET L1 == resetIfNewDay(Limiter, dayKeyNow)
        e == Entry(L1.userDaily, u)
    IN L1.globalUsed < GLOBAL_PER_DAY =>
         /\ (e.used >= USER_PER_DAY /\ e.usedPro < ELEVATED_PER_DAY) =>
              canUse(L1, u, TRUE, FALSE) = "ok"
         /\ (e.usedPro >= ELEVATED_PER_DAY /\ e.used < USER_PER_DAY) =>
              canUse(L1, u, FALSE, FALSE) = "ok"

\* C25's case: a user with the standard budget used up and one elevated
\* request charged has been granted another /ask-pro by canUse.
C25_Witness ==
  \E r \in InFlight :
    /\ r.cmd = "ask-pro" /\ r.gate = "ok" /\ ~r.bypass /\ r.pc = "defer"
    /\ ~r.didReset /\ globalDayKey = today
    /\ Entry(userDaily, r.user).used = USER_PER_DAY
    /\ Entry(userDaily, r.user).usedPro = 1
    /\ globalUsed < GLOBAL_PER_DAY

\* C26: every limiter operation, consume included, first compares the stored
\* day key with today's date and resets on a difference: a consume that runs
\* after the date changed since the last limiter operation leaves the day key
\* equal to today, globalUsed equal to 1 and only the consuming user's
\* relevant counter equal to 1.
C26_ConsumeResetsFirst ==
  [][\A r \in BagToSet(req), r2 \in BagToSet(req') :
       (RanConsume(r, r2) /\ ~r.bypass /\ globalDayKey # today) =>
         /\ globalDayKey' = today
         /\ globalUsed' = 1
         /\ DOMAIN userDaily' = {r.user}
         /\ userDaily'[r.user] = IF r.cmd = "ask-pro"
                                    THEN [used |-> 0, usedPro |-> 1]
                                    ELSE [used |-> 1, usedPro |-> 0]]_vars

\* C27: globalUsed and every per-user counter are never negative, and a step
\* that performs no day reset leaves each of them unchanged or larger, and
\* forgets no user.
C27_CountersMonotone ==
  /\ [](/\ globalUsed >= 0
        /\ \A u \in DOMAIN userDaily :
             userDaily[u].used >= 0 /\ userDaily[u].usedPro >= 0)
  /\ [][globalDayKey' = globalDayKey =>
          /\ globalUsed' >= globalUsed
          /\ \A u \in DOMAIN userDaily :
               /\ u \in DOMAIN userDaily'
               /\ userDaily'[u].used >= userDaily[u].used
               /\ userDaily'[u].usedPro >= userDaily[u].usedPro]_vars

\* C27's case: on one day a user has been charged on both budgets, the
\* second charge having just been made.
C27_Witness ==
  \E r \in InFlight :
    /\ r.consumed = 1 /\ r.outcome = "answer" /\ ~r.bypass
    /\ globalDayKey = today
    /\ Entry(userDaily, r.user).used >= 1
    /\ Entry(userDaily, r.user).usedPro >= 1
    /\ globalUsed >= 2

\* The sum of used + usedPro over the users of the usage map m.
RECURSIVE SumUsage(_, _)
SumUsage(m, us) ==
  IF us = {} THEN 0
  ELSE LET u == CHOOSE x \in us : TRUE
       IN m[u].used + m[u].usedPro + SumUsage(m, us \ {u})

\* C34: in every reachable state of the rate limiter globalUsed equals the sum
\* over all users of used + usedPro.
C34_GlobalIsSum == globalUsed = SumUsage(userDaily, DOMAIN userDaily)

\* C34's case: both users have been charged, and a request under bypass has
\* gone through consume, which charged nothing.
C34_Witness ==
  /\ \E r \in InFlight : r.bypass /\ r.consumed = 1
  /\ globalUsed >= 2
  /\ \A u \in Users : u \in DOMAIN userDaily /\ userDaily[u].used + userDaily[u].usedPro >= 1

C36_ChecksAreReadOnly ==
  [][\A r \in BagToSet(req), r2 \in BagToSet(req') :
       (Moved(r, r2) /\ r.pc = "fetch" /\ globalDayKey = today
          /\ (r2.gate # "none" \/ r2.outcome = "limits")) =>
         /\ globalUsed' = globalUsed
         /\ userDaily' = userDaily
         /\ DOMAIN userDaily' = DOMAIN userDaily
         /\ globalDayKey' = globalDayKey]_vars

\* C36's case: with quota used on the current day, one request has been
\* denied by canUse and /limits has been answered by remainingFor, for a user
\* who has no entry in the usage map.
C36_Witness ==
  /\ globalDayKey = today /\ globalUsed >= 1
  /\ \E r \in InFlight : r.gate \in {"user", "global"} /\ r.outcome = "denied" /\ ~r.didReset
  /\ \E r \in InFlight :
       r.outcome = "limits" /\ ~r.didReset /\ r.user \notin DOMAIN userDaily

(***************************************************************************)
(* chunkText: src/kb/chunk.js lines 1-12 ("chunk.js") and                  *)
(* src/unnamed/part_004 lines 180-190 ("part_004"; src/kb/kb.js lines      *)
(* 136-146 is the same loop).  A text is a sequence of characters.         *)
(***************************************************************************)
CR == "\r"
Chars == {"a", "b", CR}
Texts == UNION {[1 .. n -> Chars] : n \in 0 .. MaxLen}
Impls == {"chunk.js", "part_004"}

\* An array of more than MaxOut chunks does not fit the heap.  A call that
\* returns pushes at most one chunk per character, so no such call comes near.
MaxOut == MaxLen + 2

\* String.prototype.slice(a, b): a negative index counts from the end.
slice(q, a, b) ==
  LET from == IF a < 0 THEN Max2(Len(q) + a, 0) ELSE Min2(a, Len(q))
      to == IF b < 0 THEN Max2(Len(q) + b, 0) ELSE Min2(b, Len(q))
  IN SubSeq(q, from + 1, to)

\* (text || '').replace(/\r/g, '')                       (chunk.js:2)
stripCR(q) == SelectSeq(q, LAMBDA c : c # CR)

\* const end = Math.min(t.length, i + max)               (chunk.js:6, part_004:184)
endToLength(len, pos, mx) == len
endOf(len, pos, mx) == Min2(len, pos + mx)

\* i = end - overlap                                     (chunk.js:8, part_004:187)
nextIndexNoOverlap(e, ov) == e
nextIndex(e, ov) == e - ov

\* chunkText(text, max, overlap) is called.
chunkTextCall ==
  /\ cpc = "call"
  /\ t' = IF impl = "chunk.js" THEN stripCR(text) ELSE text
  /\ i' = 0
  /\ out' = <<>>
  /\ starts' = <<>>
  /\ cpc' = "loop"
  /\ UNCHANGED <<impl, text, max, overlap>>
  /\ UNCHANGED nonChunkVars

\* chunk.js: one pass of the while body, lines 6-9.
chunkJsLoop ==
  /\ cpc = "loop" /\ impl = "chunk.js"
  /\ i < Len(t)
  /\ Len(out) < MaxOut
  /\ LET end == endOf(Len(t), i, max)
         j == nextIndex(end, overlap)
     IN /\ out' = Append(out, slice(t, i, end))
        /\ starts' = Append(starts, i)
        /\ i' = IF j < 0 THEN 0 ELSE j
  /\ UNCHANGED <<impl, text, max, overlap, t, cpc>>
  /\ UNCHANGED nonChunkVars

\* part_004: one pass of the while body, lines 184-187, with its break.
part004Loop ==
  /\ cpc = "loop" /\ impl = "part_004"
  /\ i < Len(t)
  /\ Len(out) < MaxOut
  /\ LET end == endOf(Len(t), i, max)
     IN /\ out' = Append(out, slice(t, i, end))
        /\ starts' = Append(starts, i)
        /\ IF end = Len(t)
             THEN cpc' = "done" /\ i' = i
             ELSE cpc' = "loop" /\ i' = nextIndex(end, overlap)
  /\ UNCHANGED <<impl, text, max, overlap, t>>
  /\ UNCHANGED nonChunkVars

\* The while condition is false: return out.
chunkTextReturn ==
  /\ cpc = "loop"
  /\ ~(i < Len(t))
  /\ cpc' = "done"
  /\ UNCHANGED <<impl, text, max, overlap, t, i, out, starts>>
  /\ UNCHANGED nonChunkVars

\* The loop is still running when the array no longer fits the heap.
chunkTextOutOfMemory ==
  /\ cpc = "loop"
  /\ i < Len(t)
  /\ Len(out) >= MaxOut
  /\ cpc' = "oom"
  /\ UNCHANGED <<impl, text, max, overlap, t, i, out, starts>>
  /\ UNCHANGED nonChunkVars

\* The limiter at rest, while chunkText runs.
LimiterIdle == LimiterInit /\ consumedToday = -1

ChunkInit ==
  /\ LimiterIdle
  /\ KbIdle
  /\ OthersIdle
  /\ impl \in Impls
  /\ text \in Texts
  /\ max \in 1 .. MaxChunk
  /\ overlap \in 0 .. MaxChunk
  /\ t = <<>> /\ i = 0 /\ out = <<>> /\ starts = <<>>
  /\ cpc = "call"

ChunkNext ==
  \/ chunkTextCall
  \/ chunkJsLoop
  \/ part004Loop
  \/ chunkTextReturn
  \/ chunkTextOutOfMemory

ChunkSpec == ChunkInit /\ [][ChunkNext]_vars

\* Synchronous code runs on: a step that can be taken is taken.
ChunkFairSpec == ChunkInit /\ [][ChunkNext]_vars /\ WF_vars(ChunkNext)

(***************************************************************************)
(* Properties of chunkText.                                                *)
(***************************************************************************)
\* The arguments the chunker's contract covers: max >= 1, 0 <= overlap < max.
InContract == max >= 1 /\ overlap >= 0 /\ overlap < max

CeilDiv(a, b) == (a + b - 1) \div b

\* C7: chunkText terminates for every text and every max >= 1,
\* 0 <= overlap < max: the call returns.
C7_Terminates == InContract => <>(cpc = "done")

\* C8: the number of chunks returned is ceil((len(T) - overlap) / (max - overlap))
\* when len(T) > overlap and 1 otherwise, the empty text included.
C8_ChunkCount ==
  (cpc = "done" /\ InContract) =>
    Len(out) = IF Len(text) > overlap
                 THEN CeilDiv(Len(text) - overlap, max - overlap)
                 ELSE 1

\* C8 as amended: whenever chunkText returns, with len the length of the text it
\* split (t: in chunk.js the text without its carriage returns), the number of
\* chunks is 0 when len = 0, ceil((len - overlap) / (max - overlap)) when
\* len > overlap, and 1 otherwise.
C8_ChunkCountAmended ==
  (cpc = "done" /\ InContract) =>
    Len(out) = IF Len(t) = 0 THEN 0
               ELSE IF Len(t) > overlap
                 THEN CeilDiv(Len(t) - overlap, max - overlap)
                 ELSE 1

\* C8's case: a call with overlapping windows has returned three chunks or more.
C8_Witness ==
  /\ cpc = "done" /\ InContract
  /\ overlap >= 1 /\ Len(t) > overlap /\ Len(out) >= 3

\* C9: in the array chunkText returns, each pair of consecutive chunks, except
\* possibly the pair ending in the last chunk, overlaps by exactly `overlap`
\* characters: chunk k+1 starts max - overlap positions after chunk k, and the
\* last `overlap` characters of chunk k are the first ones of chunk k+1.
C9_ConsecutiveOverlap ==
  (cpc = "done" /\ InContract) =>
    \A k \in 1 .. Len(out) - 2 :
      /\ starts[k + 1] = starts[k] + (max - overlap)
      /\ Len(out[k]) >= overlap /\ Len(out[k + 1]) >= overlap
      /\ SubSeq(out[k], Len(out[k]) - overlap + 1, Len(out[k]))
           = SubSeq(out[k + 1], 1, overlap)

\* C9's case: a returned array of at least three chunks whose windows overlap,
\* the second chunk beginning and ending with different characters.
C9_Witness ==
  /\ cpc = "done" /\ InContract
  /\ overlap >= 1 /\ Len(out) >= 3
  /\ out[2][1] # out[2][Len(out[2])]

\* C10: every chunk is non-empty and has at most max characters.  (It holds of
\* the array at every moment of the loop, not only of the array returned.)
C10_ChunkSize ==
  InContract => \A k \in 1 .. Len(out) : Len(out[k]) >= 1 /\ Len(out[k]) <= max

\* C10's case: a returned array with a full chunk and a shorter last chunk.
C10_Witness ==
  /\ cpc = "done" /\ InContract
  /\ Len(out) >= 2
  /\ Len(out[1]) = max /\ Len(out[Len(out)]) < max

\* The part of chunk k that follows the region it shares with chunk k - 1; the
\* region is the window positions both cover.
UniqueSpan(k) ==
  IF k = 1 THEN out[1]
  ELSE LET shared == (starts[k - 1] + Len(out[k - 1])) - starts[k]
       IN SubSeq(out[k], shared + 1, Len(out[k]))

RECURSIVE Reconstructed(_)
Reconstructed(k) == IF k = 0 THEN <<>> ELSE Reconstructed(k - 1) \o UniqueSpan(k)

\* C11: for every text T and every max >= 1, 0 <= overlap < max, the first chunk
\* followed by every later chunk's part after the region shared with its
\* predecessor is exactly T without its carriage returns; every character of
\* the normalized text is in some chunk, and no chunk contains a carriage return.
C11_Reconstruction ==
  (cpc = "done" /\ InContract) =>
    LET n == stripCR(text)
    IN /\ Reconstructed(Len(out)) = n
       /\ \A p \in 1 .. Len(n) :
            \E k \in 1 .. Len(out) :
              /\ starts[k] < p /\ p <= starts[k] + Len(out[k])
              /\ out[k][p - starts[k]] = n[p]
       /\ \A k \in 1 .. Len(out) : \A p \in 1 .. Len(out[k]) : out[k][p] # CR

\* C28: chunkText terminates also when overlap >= max, for every finite text:
\* the guard on the step position keeps non-advancing or negative steps from
\* looping for ever.
C28_TerminatesOverlapGeMax == (max >= 1 /\ overlap >= max) => <>(cpc = "done")

\* The concatenation of the first k chunks.
RECURSIVE Concat(_)
Concat(k) == IF k = 0 THEN <<>> ELSE Concat(k - 1) \o out[k]

\* The partition of the text q in pieces of max characters.
IsPartitionOf(q) ==
  /\ Len(out) = CeilDiv(Len(q), max)
  /\ \A k \in 1 .. Len(out) :
       out[k] = SubSeq(q, (k - 1) * max + 1, Min2(k * max, Len(q)))
  /\ Concat(Len(out)) = q

\* C29: with overlap = 0, chunkText partitions the text: chunk k (from 0) is
\* the characters [k*max, min((k+1)*max, len)), there are ceil(len/max) chunks
\* and their concatenation is the text.
C29_Partition ==
  (cpc = "done" /\ overlap = 0) => IsPartitionOf(text)

\* C29 as amended: with overlap = 0, chunkText partitions the text it splits
\* (t: in chunk.js the text without its carriage returns) in the same way.
C29_PartitionAmended ==
  (cpc = "done" /\ overlap = 0) => IsPartitionOf(t)

\* C29's case (25 characters with max = 10 give chunks of 10, 10, 5), scaled:
\* chunk.js has returned 2, 2 and 1 characters of a text of five.
C29_Witness ==
  /\ cpc = "done" /\ overlap = 0 /\ impl = "chunk.js"
  /\ max = 2 /\ Len(t) = 5
  /\ Len(out) = 3 /\ Len(out[1]) = 2 /\ Len(out[2]) = 2 /\ Len(out[3]) = 1

(***************************************************************************)
(* The knowledge base.  Two programs of the repository have one:           *)
(*   src/unnamed/part_001 with src/kb/qdrant.js, src/unnamed/part_000 and  *)
(*     src/kb/chunk.js: kbAddDoc and kbSearch, guarded by `qdrant`;        *)
(*   src/unnamed/part_004 (src/kb/kb.js is the same but for the point id): *)
(*     the /kb-add handler with embedTexts and kbUpsert, and kbSearch,     *)
(*     guarded by KB_READY.                                                *)
(* The embedding provider and the store are outside the program: each call *)
(* to them resolves or rejects, and the model takes either.  An operation  *)
(* runs from one await to the next in one action; operations are run one   *)
(* after another.  OPENAI_API_KEY is configured.                           *)
(***************************************************************************)
Titles == {"T1", "T2"}
DocText(n) == [k \in 1 .. n |-> IF k % 2 = 1 THEN "a" ELSE "b"]
DocTexts == {DocText(n) : n \in 0 .. DocLen + 1}
Query == <<"a">>

\* const SCORE_MIN = 0.18, in hundredths                  (part_001:6)
SCORE_MIN == 18
\* The scores a hit can have, in hundredths; `undefined` is a hit without one.
undefined == -1
Scores == {50, 30, 18, 10}
\* What qdrant.search resolves to: at most MaxHits hits, nearest first.
Responses ==
  LET seqs == UNION {[1 .. n -> Scores \cup {undefined}] : n \in 0 .. MaxHits}
      sorted == {q \in seqs : \A k \in 1 .. Len(q) - 1 : q[k] >= q[k + 1]}
  IN {[k \in 1 .. Len(q) |-> [id |-> k, score |-> q[k]]] : q \in sorted}

\* The embedding of a string; the provider returns one per input, in order.
Vec(c) == [of |-> c]
embedding(input) == [k \in 1 .. Len(input) |-> Vec(input[k])]

\* The calls an operation issues, as the history records them.
EmbedCall(input) ==
  [api |-> "embed", input |-> input, points |-> <<>>, wait |-> FALSE, res |-> <<>>]
UpsertCall(pts, w) ==
  [api |-> "upsert", input |-> <<>>, points |-> pts, wait |-> w, res |-> <<>>]
SearchCall ==
  [api |-> "search", input |-> <<>>, points |-> <<>>, wait |-> FALSE, res |-> <<>>]

\* if (!qdrant) return ...                               (part_001:13, 26)
kbDisabledNever(q) == FALSE
kbDisabled(q) == q = "null"

\* QdrantClient.upsert(collection, { wait = true, ...points }): an upsert whose
\* wait is true resolves once the points are applied; one whose wait is false
\* resolves on receipt, applied or not.  part_001:21 leaves wait out, and the
\* client's default is true; part_004:169 and kb.js:185 pass wait: true.
kbAddDocWait == TRUE
kbUpsertNoWait == FALSE
kbUpsertWait == TRUE
Applied(w) == IF w THEN {TRUE} ELSE BOOLEAN
StoreUpsert(pts, applied) ==
  IF applied
    THEN stored' = stored \o pts /\ lagging' = lagging
    ELSE stored' = stored /\ lagging' = lagging \o pts

\* (x?.score ?? 0) >= SCORE_MIN                          (part_001:35)
scoreOrZero(x) == IF x.score = undefined THEN 0 ELSE x.score
\* What kbSearch returns for the store's hits res: part_001 filters by score,
\* part_004 and kb.js map every hit.
surfaced(op, res) ==
  IF op = "kbSearch"
    THEN SelectSeq(res, LAMBDA x : scoreOrZero(x) >= SCORE_MIN)
    ELSE res

\* chunkText(text) is entered with the default max and overlap.
callChunkText(im, tx) ==
  /\ impl' = im /\ text' = tx /\ max' = ChunkMax /\ overlap' = ChunkOverlap
  /\ cpc' = "call"
  /\ UNCHANGED <<t, i, out, starts>>

\* crypto.randomUUID() for each chunk of a batch: ids never handed out before.
newPoints(batch) ==
  [k \in 1 .. Len(batch) |->
     [id |-> nextId + k, vector |-> embedding(batch)[k], title |-> title,
      text |-> batch[k]]]

storeVars == <<qdrant, KB_READY, stored, lagging, nextId>>

\* ---- part_001: kbAddDoc({ title, text }) ----
\* The call runs to `return { ok: false }`, or into chunkText(text).
kbAddDocCall(ti, tx) ==
  /\ kpc = "idle" /\ ops < MaxOps
  /\ kop' = "kbAddDoc" /\ title' = ti /\ ops' = ops + 1
  /\ IF kbDisabled(qdrant)
       THEN /\ kpc' = "returned"
            /\ result' = [kind |-> "value", ok |-> FALSE, count |-> {}, hits |-> <<>>]
            /\ UNCHANGED chunkVars
       ELSE /\ kpc' = "chunking"
            /\ result' = result
            /\ callChunkText("chunk.js", tx)
  /\ UNCHANGED <<chunks, bi, inserted, points, calls>>
  /\ UNCHANGED storeVars
  /\ UNCHANGED outsideKb

\* chunkText returned: await embed(chunks), one call with every chunk.
kbAddDocEmbed ==
  /\ kop = "kbAddDoc" /\ kpc = "chunking" /\ cpc = "done"
  /\ chunks' = out
  /\ calls' = Append(calls, EmbedCall(out))
  /\ kpc' = "embed"
  /\ UNCHANGED <<kop, title, bi, inserted, points, result, ops>>
  /\ UNCHANGED storeVars
  /\ UNCHANGED chunkVars
  /\ UNCHANGED outsideKb

\* embed resolved: the points are built and await qdrant.upsert is reached.
kbAddDocEmbedded ==
  /\ kop = "kbAddDoc" /\ kpc = "embed"
  /\ points' = newPoints(chunks)
  /\ nextId' = nextId + Len(chunks)
  /\ calls' = Append(calls, UpsertCall(newPoints(chunks), kbAddDocWait))
  /\ kpc' = "upsert"
  /\ UNCHANGED <<kop, title, chunks, bi, inserted, result, ops>>
  /\ UNCHANGED <<qdrant, KB_READY, stored, lagging>>
  /\ UNCHANGED chunkVars
  /\ UNCHANGED outsideKb

\* upsert resolved: return { ok: true, chunks: points.length }.
kbAddDocUpserted(applied) ==
  /\ kop = "kbAddDoc" /\ kpc = "upsert"
  /\ applied \in Applied(kbAddDocWait)
  /\ StoreUpsert(points, applied)
  /\ result' = [kind |-> "value", ok |-> TRUE, count |-> {Len(points)}, hits |-> <<>>]
  /\ kpc' = "returned"
  /\ UNCHANGED <<kop, title, chunks, bi, inserted, points, calls, ops>>
  /\ UNCHANGED <<qdrant, KB_READY, nextId>>
  /\ UNCHANGED chunkVars
  /\ UNCHANGED outsideKb

\* ---- kbSearch(query, limit): part_001 ("kbSearch"), part_004 ("kbSearch004") ----
\* The call runs to `return []`, or to await embed(query).
kbSearchCall(op) ==
  /\ kpc = "idle" /\ ops < MaxOps
  /\ kop' = op /\ ops' = ops + 1
  /\ IF (IF op = "kbSearch" THEN kbDisabled(qdrant) ELSE ~KB_READY)
       THEN /\ kpc' = "returned"
            /\ result' = [kind |-> "value", ok |-> TRUE, count |-> {}, hits |-> <<>>]
            /\ calls' = calls
       ELSE /\ kpc' = "embed"
            /\ result' = result
            /\ calls' = Append(calls, EmbedCall(<<Query>>))
  /\ UNCHANGED <<title, chunks, bi, inserted, points>>
  /\ UNCHANGED storeVars
  /\ UNCHANGED chunkVars
  /\ UNCHANGED outsideKb

\* embed resolved: await qdrant.search(KB_COLLECTION, { vector, limit }).
kbSearchEmbedded ==
  /\ kop \in {"kbSearch", "kbSearch004"} /\ kpc = "embed"
  /\ calls' = Append(calls, SearchCall)
  /\ kpc' = "search"
  /\ UNCHANGED <<kop, title, chunks, bi, inserted, points, result, ops>>
  /\ UNCHANGED storeVars
  /\ UNCHANGED chunkVars
  /\ UNCHANGED outsideKb

\* search resolved to res: the hits are mapped (and, in part_001, filtered).
kbSearchFound(res) ==
  /\ kop \in {"kbSearch", "kbSearch004"} /\ kpc = "search"
  /\ calls' = [calls EXCEPT ![Len(calls)].res = res]
  /\ result' = [kind |-> "value", ok |-> TRUE, count |-> {}, hits |-> surfaced(kop, res)]
  /\ kpc' = "returned"
  /\ UNCHANGED <<kop, title, chunks, bi, inserted, points, ops>>
  /\ UNCHANGED storeVars
  /\ UNCHANGED chunkVars
  /\ UNCHANGED outsideKb

\* An awaited call of kbAddDoc or kbSearch rejects: the function throws.
kbAwaitRejected ==
  /\ kop \in {"kbAddDoc", "kbSearch", "kbSearch004"}
  /\ kpc \in {"embed", "upsert", "search"}
  /\ result' = [kind |-> "throw", ok |-> FALSE, count |-> {}, hits |-> <<>>]
  /\ kpc' = "threw"
  /\ UNCHANGED <<kop, title, chunks, bi, inserted, points, calls, ops>>
  /\ UNCHANGED storeVars
  /\ UNCHANGED chunkVars
  /\ UNCHANGED outsideKb

\* ---- part_004: the /kb-add branch of the interactionCreate handler ----
Reply(kind, ok, count) == [kind |-> kind, ok |-> ok, count |-> count, hits |-> <<>>]

\* catch (err) { await respond(interaction, { content: `Error: ${err.message}` }) }
\* The message is the error's own; it states no chunk count.   (part_004:589-594)
errorReply == Reply("error", FALSE, {})

\* The loop written without its awaits being in turn: with another batch
\* behind the next one, both embeddings are issued.
kbAddLoopAhead(ch, idx, ins) ==
  IF idx < Len(ch)
    THEN /\ calls' = (IF idx + BATCH < Len(ch)
                        THEN Append(Append(calls, EmbedCall(slice(ch, idx, idx + BATCH))),
                                    EmbedCall(slice(ch, idx + BATCH, idx + 2 * BATCH)))
                        ELSE Append(calls, EmbedCall(slice(ch, idx, idx + BATCH))))
         /\ kpc' = "embed"
         /\ result' = result
    ELSE /\ calls' = calls
         /\ kpc' = "respond"
         /\ result' = Reply("added", TRUE, {ins})

\* The head of `for (let i = 0; i < chunks.length; i += BATCH)` with the loop's
\* variables at ch, idx, ins: the next batch is sliced and embedded under
\* withTimeout, or the loop is over and the count is reported.
kbAddLoop(ch, idx, ins) ==
  IF idx < Len(ch)
    THEN /\ calls' = Append(calls, EmbedCall(slice(ch, idx, idx + BATCH)))
         /\ kpc' = "embed"
         /\ result' = result
    ELSE /\ calls' = calls
         /\ kpc' = "respond"
         /\ result' = Reply("added", TRUE, {ins})

\* /kb-add arrives: await ack(interaction).
kbAddCommand ==
  /\ kpc = "idle" /\ ops < MaxOps
  /\ kop' = "kb-add" /\ ops' = ops + 1
  /\ kpc' = "ack"
  /\ UNCHANGED <<title, chunks, bi, inserted, points, calls, result>>
  /\ UNCHANGED storeVars
  /\ UNCHANGED chunkVars
  /\ UNCHANGED outsideKb

\* ack settled (it never throws): the checks, the options ti and tx, and
\* chunkText(content).
kbAddAcked(ti, tx) ==
  /\ kop = "kb-add" /\ kpc = "ack"
  /\ IF ~KB_READY
       THEN /\ kpc' = "respond" /\ result' = Reply("disabled", FALSE, {})
            /\ UNCHANGED title
            /\ UNCHANGED chunkVars
       ELSE IF Len(tx) > DocLen
       THEN /\ kpc' = "respond" /\ result' = Reply("toobig", FALSE, {})
            /\ title' = ti
            /\ UNCHANGED chunkVars
       ELSE /\ kpc' = "chunking" /\ result' = result
            /\ title' = ti
            /\ callChunkText("part_004", tx)
  /\ UNCHANGED <<kop, chunks, bi, inserted, points, calls, ops>>
  /\ UNCHANGED storeVars
  /\ UNCHANGED outsideKb

\* chunkText returned: the batch loop is entered.
kbAddChunked ==
  /\ kop = "kb-add" /\ kpc = "chunking" /\ cpc = "done"
  /\ chunks' = out /\ bi' = 0 /\ inserted' = 0
  /\ kbAddLoop(out, 0, 0)
  /\ UNCHANGED <<kop, title, points, ops>>
  /\ UNCHANGED storeVars
  /\ UNCHANGED chunkVars
  /\ UNCHANGED outsideKb

\* The batch's embedding resolved: items, then kbUpsert(items) up to its
\* await qdrant.upsert(KB_COLLECTION, { wait: true, points }).
kbAddEmbedded ==
  /\ kop = "kb-add" /\ kpc = "embed"
  /\ IF ~KB_READY
       THEN /\ kpc' = "respond" /\ result' = errorReply
            /\ UNCHANGED <<points, nextId, calls>>
       ELSE LET batch == slice(chunks, bi, bi + BATCH)
            IN /\ points' = newPoints(batch)
               /\ nextId' = nextId + Len(batch)
               /\ calls' = Append(calls, UpsertCall(newPoints(batch), kbUpsertWait))
               /\ kpc' = "upsert"
               /\ result' = result
  /\ UNCHANGED <<kop, title, chunks, bi, inserted, ops>>
  /\ UNCHANGED <<qdrant, KB_READY, stored, lagging>>
  /\ UNCHANGED chunkVars
  /\ UNCHANGED outsideKb

\* The batch's embedding rejected, or its KB_TIMEOUT_MS timer fired first: the
\* throw leaves the loop for the handler's catch, which responds.
kbAddEmbedFailed ==
  /\ kop = "kb-add" /\ kpc = "embed"
  /\ kpc' = "respond" /\ result' = errorReply
  /\ UNCHANGED <<kop, title, chunks, bi, inserted, points, calls, ops>>
  /\ UNCHANGED storeVars
  /\ UNCHANGED chunkVars
  /\ UNCHANGED outsideKb

\* The batch's upsert resolved: inserted += items.length; i += BATCH; loop.
kbAddUpserted(applied) ==
  /\ kop = "kb-add" /\ kpc = "upsert"
  /\ applied \in Applied(kbUpsertWait)
  /\ StoreUpsert(points, applied)
  /\ inserted' = inserted + Len(points)
  /\ bi' = bi + BATCH
  /\ kbAddLoop(chunks, bi + BATCH, inserted + Len(points))
  /\ UNCHANGED <<kop, title, chunks, points, ops>>
  /\ UNCHANGED <<qdrant, KB_READY, nextId>>
  /\ UNCHANGED chunkVars
  /\ UNCHANGED outsideKb

\* The batch's upsert rejected: the handler's catch responds.
kbAddUpsertFailed ==
  /\ kop = "kb-add" /\ kpc = "upsert"
  /\ kpc' = "respond" /\ result' = errorReply
  /\ UNCHANGED <<kop, title, chunks, bi, inserted, points, calls, ops>>
  /\ UNCHANGED storeVars
  /\ UNCHANGED chunkVars
  /\ UNCHANGED outsideKb

\* The operation is over (it returned, threw, or its respond settled); the
\* next one can start.
kbOpEnds ==
  /\ kpc \in {"returned", "threw", "respond"}
  /\ kop' = "none" /\ kpc' = "idle" /\ title' = "" /\ chunks' = <<>>
  /\ bi' = 0 /\ inserted' = 0 /\ points' = <<>> /\ calls' = <<>>
  /\ result' = NoResult
  /\ impl' = "none" /\ text' = <<>> /\ max' = 1 /\ overlap' = 0
  /\ t' = <<>> /\ i' = 0 /\ out' = <<>> /\ starts' = <<>> /\ cpc' = "idle"
  /\ UNCHANGED ops
  /\ UNCHANGED storeVars
  /\ UNCHANGED outsideKb

\* QDRANT_URL is set or not; with it set, part_004's start-up (initQdrant)
\* succeeded or failed.
KbInit ==
  /\ LimiterIdle
  /\ ChunkIdle
  /\ qdrant \in {"null", "client"}
  /\ KB_READY \in (IF qdrant = "client" THEN BOOLEAN ELSE {FALSE})
  /\ KbLocalsIdle
  /\ stored = <<>> /\ lagging = <<>> /\ nextId = 0 /\ ops = 0
  /\ OthersIdle

KbNext ==
  \/ \E ti \in Titles, tx \in DocTexts : kbAddDocCall(ti, tx)
  \/ kbAddDocEmbed
  \/ kbAddDocEmbedded
  \/ \E applied \in BOOLEAN : kbAddDocUpserted(applied)
  \/ \E op \in {"kbSearch", "kbSearch004"} : kbSearchCall(op)
  \/ kbSearchEmbedded
  \/ \E res \in Responses : kbSearchFound(res)
  \/ kbAwaitRejected
  \/ kbAddCommand
  \/ \E ti \in Titles, tx \in DocTexts : kbAddAcked(ti, tx)
  \/ kbAddChunked
  \/ kbAddEmbedded
  \/ kbAddEmbedFailed
  \/ \E applied \in BOOLEAN : kbAddUpserted(applied)
  \/ kbAddUpsertFailed
  \/ kbOpEnds
  \/ chunkTextCall
  \/ chunkJsLoop
  \/ part004Loop
  \/ chunkTextReturn
  \/ chunkTextOutOfMemory

KbSpec == KbInit /\ [][KbNext]_vars

\* The event loop runs on: synchronous code proceeds, and an awaited call that
\* settles resumes its caller.
KbFairSpec == KbInit /\ [][KbNext]_vars /\ WF_vars(KbNext)

(***************************************************************************)
(* Properties of the knowledge base.                                       *)
(***************************************************************************)
EmbedCalls == SelectSeq(calls, LAMBDA c : c.api = "embed")
UpsertCalls == SelectSeq(calls, LAMBDA c : c.api = "upsert")
Ingesting == kop \in {"kbAddDoc", "kb-add"}
Searched ==
  /\ kop \in {"kbSearch", "kbSearch004"} /\ kpc = "returned"
  /\ calls # <<>> /\ calls[Len(calls)].api = "search"
InStore(pt) == \E k \in 1 .. Len(stored) : stored[k] = pt

RECURSIVE Flatten(_)
Flatten(qs) == IF qs = <<>> THEN <<>> ELSE Head(qs) \o Flatten(Tail(qs))

\* C12: kbSearch returns exactly the store's hits whose score is >= SCORE_MIN,
\* in the store's order: no hit below the threshold or without a score is
\* returned, no hit at or above it is dropped, and the order is kept.
C12_ScoreFilter ==
  Searched =>
    LET res == calls[Len(calls)].res
        hits == result.hits
    IN /\ \A k \in 1 .. Len(hits) :
            /\ hits[k].score # undefined
            /\ hits[k].score >= SCORE_MIN
            /\ hits[k].id \in 1 .. Len(res) /\ res[hits[k].id] = hits[k]
       /\ \A k \in 1 .. Len(res) :
            (res[k].score # undefined /\ res[k].score >= SCORE_MIN) =>
              \E j \in 1 .. Len(hits) : hits[j] = res[k]
       /\ \A j \in 1 .. Len(hits) - 1 : hits[j].id < hits[j + 1].id

\* C13: with no store endpoint configured, kbAddDoc returns ok:false and
\* kbSearch returns the empty list; neither throws, neither calls the embedding
\* provider or the store (nor starts chunking), and the store is left as it was,
\* whatever operations came before.
C13_DisabledIsNoOp ==
  (qdrant = "null" /\ kop \in {"kbAddDoc", "kbSearch"}) =>
    /\ kpc = "returned"
    /\ result.kind = "value"
    /\ kop = "kbAddDoc" => ~result.ok
    /\ kop = "kbSearch" => result.hits = <<>>
    /\ calls = <<>>
    /\ cpc = "idle"
    /\ stored = <<>> /\ lagging = <<>> /\ nextId = 0

\* C13's case: on a disabled knowledge base the second operation, a kbSearch,
\* has returned.
C13_Witness ==
  /\ qdrant = "null" /\ ops = 2
  /\ kop = "kbSearch" /\ kpc = "returned" /\ result.hits = <<>>

\* C14: with the store enabled and the embedding and the upsert succeeding,
\* kbAddDoc returns; what it returns is ok:true with a chunk count equal to the
\* number of points it upserted, one point per chunk of chunkText(text), each
\* with an id no other point ever had and all with the document's title.
C14_AddDocReturns ==
  /\ []((kop = "kbAddDoc" /\ kpc = "returned" /\ qdrant = "client") =>
          /\ result.ok /\ result.count = {Len(out)}
          /\ Len(UpsertCalls) = 1 /\ UpsertCalls[1].points = points
          /\ Len(points) = Len(out)
          /\ \A k \in 1 .. Len(points) :
               /\ points[k].text = out[k] /\ points[k].title = title
               /\ InStore(points[k])
          /\ \A k, j \in 1 .. Len(stored) : stored[k].id = stored[j].id => k = j)
  /\ []((kop = "kbAddDoc" /\ kpc = "chunking") =>
          <>(kop = "kbAddDoc" /\ kpc \in {"returned", "threw"}))

C16_BatchedEmbedding ==
  Ingesting =>
    /\ \A k \in 1 .. Len(EmbedCalls) : Len(EmbedCalls[k].input) <= BATCH
    /\ (kpc \in {"returned", "respond"} /\ result.ok) =>
         /\ Len(EmbedCalls) = CeilDiv(Len(chunks), BATCH)
         /\ Flatten([k \in 1 .. Len(EmbedCalls) |-> EmbedCalls[k].input]) = chunks
    /\ \A k \in 1 .. Len(UpsertCalls) :
         \A j \in 1 .. Len(UpsertCalls[k].points) :
           UpsertCalls[k].points[j].vector = Vec(UpsertCalls[k].points[j].text)

\* C17: when the embedding or the upsert of a batch of /kb-add fails, no later
\* batch is embedded or upserted, and the failure handed to the caller states
\* the number of chunks the earlier batches committed.
C17_FailureReportsCommitted ==
  (kop = "kb-add" /\ result.kind = "error") =>
    /\ kpc = "respond"
    /\ Len(EmbedCalls) = (bi \div BATCH) + 1
    /\ Len(UpsertCalls) \in {bi \div BATCH, (bi \div BATCH) + 1}
    /\ inserted = Min2(bi, Len(chunks))
    /\ result.count = {inserted}

\* C32: within one /kb-add the batches are processed one after another.  A
\* call of the ingestion is issued only by the step that resumes from the
\* await of the call before it: the embedding of a batch when chunkText has
\* returned (the first) or when the upsert of the batch before it resolved,
\* the upsert of a batch when its embedding resolved.  So the calls alternate,
\* embedding then upsert, every call but the last has completed, and at most
\* one embedding and at most one upsert are in flight at any time.
C32_BatchesInTurn ==
  /\ [](kop = "kb-add" =>
          /\ \A k \in 1 .. Len(calls) :
               calls[k].api = IF k % 2 = 1 THEN "embed" ELSE "upsert"
          /\ kpc = "embed" => Len(calls) = 2 * (bi \div BATCH) + 1
          /\ kpc = "upsert" => Len(calls) = 2 * (bi \div BATCH) + 2
          /\ (kpc = "respond" /\ result.kind = "added") =>
               Len(calls) = 2 * CeilDiv(Len(chunks), BATCH))
  /\ [][(kop = "kb-add" /\ kop' = "kb-add" /\ calls' # calls) =>
          /\ Len(calls') = Len(calls) + 1
          /\ SubSeq(calls', 1, Len(calls)) = calls
          /\ IF calls'[Len(calls')].api = "embed"
               THEN \/ calls = <<>> /\ kpc = "chunking"
                    \/ /\ kpc = "upsert" /\ inserted' = inserted + Len(points)
                       /\ \A j \in 1 .. Len(points) : InStore(points[j])'
               ELSE kpc = "embed" /\ calls'[Len(calls')].points = points']_vars

\* C32's case: the second batch's embedding was issued, after the first
\* batch was embedded and upserted.
C32_Witness ==
  /\ kop = "kb-add" /\ kpc = "embed"
  /\ Len(EmbedCalls) = 2 /\ Len(UpsertCalls) = 1
  /\ inserted = BATCH /\ Len(stored) >= BATCH

(***************************************************************************)
(* The answer path of /ask and /ask-pro, one request followed with its     *)
(* texts and timers, in the three handlers the repository has:             *)
(*   "index.js"  src/index.js lines 612-676: kbSearch and askLLM are       *)
(*               awaited as they are, inside one try;                      *)
(*   "part_004"  src/unnamed/part_004 lines 538-559 with answerWithRAG     *)
(*               (350-376) and chatComplete (344-348);                     *)
(*   "kb.js"     src/kb/kb.js lines 428-475;                               *)
(* the last two wrap the KB search and the chat call in withTimeout        *)
(* (part_004 107-116, kb.js 116-122).  The fields of `ask`:                *)
(*   impl, pc    the handler and the await it is suspended at              *)
(*   user, isPro, bypass, gate   as in the handler                         *)
(*   kb, llm     the KB search and the chat call: "none" (not made),       *)
(*               "pending", "never" (it will never settle), "resolved",    *)
(*               "rejected"                                                *)
(*   kbTimer, llmTimer   withTimeout's timer: "none", "armed", "cleared",  *)
(*               "fired"                                                   *)
(*   kbOut, llmOut   what the handler got from the await                   *)
(*   context     the context the chat call was made with                   *)
(*   completion  choices[0].message.content of the chat model's answer     *)
(*   reply       what was handed to the transport                          *)
(*   transport   how the transport's call settled: "none", "ok", "failed"  *)
(*   err         the error the catch of index.js received                  *)
(*   notice      the notice that catch chose: "billing" or "generic"       *)
(* and pc ends at "done" (the handler's promise is fulfilled) or at        *)
(* "rejected" (it is rejected, and nothing handles the rejection).         *)
(* A text is a sequence of characters; OPENAI_API_KEY is configured.       *)
(***************************************************************************)
AnsImpls == {"index.js", "part_004", "kb.js"}
WS == " "
AnsChars == {"x", WS}
Completions == UNION {[1 .. n -> AnsChars] : n \in 0 .. MaxPayload + 2}
\* 'No response.' (index.js:86), 'No answer.' (part_004:347, kb.js:470)
NoAnswer == <<"n">>

\* String.prototype.trim
RECURSIVE trimStart(_)
trimStart(q) == IF q # <<>> /\ Head(q) = WS THEN trimStart(Tail(q)) ELSE q
RECURSIVE trimEnd(_)
trimEnd(q) ==
  IF q # <<>> /\ q[Len(q)] = WS THEN trimEnd(SubSeq(q, 1, Len(q) - 1)) ELSE q
trim(q) == trimEnd(trimStart(q))

\* content?.trim() || 'No answer.'
answerText(content) == IF trim(content) = <<>> THEN NoAnswer ELSE trim(content)

\* The text the handler hands to the transport: index.js:652 editReply(text);
\* part_004:555 answer.slice(0, 1900); kb.js:471 text.slice(0, 1900).
handedOver(im, txt) == IF im = "index.js" THEN txt ELSE slice(txt, 0, MaxPayload)

\* A call is made: it is pending, or it is one that will never settle.
Made == {"pending", "never"}

\* ---- the errors the catch of /ask receives (index.js:653) ----
\* An error is the five properties isBillingInactiveError reads:
\*   code    err.code            ncode   err.error.code
\*   status  err.status          nmsg    err.error.message     msg  err.message
\* A property that is missing (or is the empty string) is "absent", a status
\* that is missing is -1.  A message is a text without the word billing
\* ("plain"), with it in lower case ("billing") or capitalised ("Billing").
\* The message of an error that carries a response body is built from the
\* body's message, so the two mention billing together.
BillingCode == "billing_not_active"
Codes == {BillingCode, "insufficient_quota", "absent"}
Statuses == {429, 500, -1}
Messages == {"absent", "plain", "billing", "Billing"}

\* /billing/.test(m), the mistaken test: it misses the capitalised word.
testBillingCaseSensitive(m) == m = "billing"
\* /billing/i.test(m)
testBilling(m) == m \in {"billing", "Billing"}

Errors ==
  {e \in [code : Codes, ncode : Codes, status : Statuses,
          nmsg : Messages, msg : Messages] :
     e.nmsg # "absent" => (testBilling(e.msg) <=> testBilling(e.nmsg))}

\* index.js:48-54
isBillingInactiveError(e) ==
  \/ e.code = BillingCode
  \/ e.ncode = BillingCode
  \/ /\ e.status = 429
     /\ testBilling(IF e.nmsg # "absent" THEN e.nmsg ELSE e.msg)

\* index.js:655-671: the subscription notice, or the general one.
noticeFor(e) == IF isBillingInactiveError(e) THEN "billing" ELSE "generic"

\* ---- all three: the command arrives ----
\* index.js awaits members.fetch, the others ack(interaction).
ansCommand(u, pro) ==
  /\ ask.pc = "idle" /\ ask.impl \in AnsImpls
  /\ ask' = [ask EXCEPT !.user = u, !.isPro = pro,
                         !.pc = IF ask.impl = "index.js" THEN "fetch" ELSE "ack"]
  /\ UNCHANGED limiterVars
  /\ UNCHANGED outsideAsk

\* ---- index.js ----
\* The member is fetched: the role checks, canUse, and deferReply.
idxFetched(hasProRole, helperRole) ==
  /\ ask.impl = "index.js" /\ ask.pc = "fetch"
  /\ LET isOwnerHelper == helperRole /\ ask.user = OWNER_ID
     IN IF ask.isPro /\ ~hasProRole /\ ~isOwnerHelper
          THEN /\ ask' = [ask EXCEPT !.pc = "respond",
                                      !.reply = [kind |-> "noperm", text |-> <<>>]]
               /\ UNCHANGED <<globalDayKey, globalUsed, userDaily>>
          ELSE LET L1 == resetIfNewDay(Limiter, dayKeyNow)
                   limit == canUse(L1, ask.user, ask.isPro, isOwnerHelper)
               IN /\ SetLimiter(L1)
                  /\ ask' = IF gateOpens(limit)
                              THEN [ask EXCEPT !.bypass = isOwnerHelper, !.gate = limit,
                                               !.pc = "defer"]
                              ELSE [ask EXCEPT !.bypass = isOwnerHelper, !.gate = limit,
                                               !.pc = "respond",
                                               !.reply = [kind |-> "denied", text |-> <<>>]]
  /\ UNCHANGED <<today, req, consumedToday>>
  /\ UNCHANGED outsideAsk

\* members.fetch or deferReply rejects: the outer catch replies.
idxOuterCatch ==
  /\ ask.impl = "index.js" /\ ask.pc \in {"fetch", "defer"}
  /\ ask' = [ask EXCEPT !.pc = "respond",
                         !.reply = [kind |-> "unexpected", text |-> <<>>]]
  /\ UNCHANGED limiterVars
  /\ UNCHANGED outsideAsk

\* deferReply resolved: await kbSearch(msg, 5).  With no store configured
\* kbSearch returns [] at once and askLLM is called with '(no context)'.
idxDeferred(s) ==
  /\ ask.impl = "index.js" /\ ask.pc = "defer"
  /\ s \in Made
  /\ ask' = IF kbDisabled(qdrant)
              THEN [ask EXCEPT !.kb = "resolved", !.kbOut = "nohits",
                               !.context = "empty", !.llm = s, !.pc = "llm"]
              ELSE [ask EXCEPT !.kb = s, !.pc = "kb"]
  /\ UNCHANGED limiterVars
  /\ UNCHANGED outsideAsk

\* kbSearch resolved, with hits or with none: the messages, then await askLLM.
idxKbFound(hasHits, s) ==
  /\ ask.impl = "index.js" /\ ask.pc = "kb" /\ ask.kb = "pending"
  /\ s \in Made
  /\ ask' = [ask EXCEPT !.kb = "resolved",
                         !.kbOut = IF hasHits THEN "hits" ELSE "nohits",
                         !.context = IF hasHits THEN "hits" ELSE "empty",
                         !.llm = s, !.pc = "llm"]
  /\ UNCHANGED limiterVars
  /\ UNCHANGED outsideAsk

\* kbSearch rejected: the catch of the same try replies with the error text.
idxKbFailed(e) ==
  /\ ask.impl = "index.js" /\ ask.pc = "kb" /\ ask.kb = "pending"
  /\ e \in Errors
  /\ ask' = [ask EXCEPT !.kb = "rejected", !.kbOut = "failed", !.pc = "respond",
                         !.err = e, !.notice = noticeFor(e),
                         !.reply = [kind |-> "error", text |-> <<>>]]
  /\ UNCHANGED limiterVars
  /\ UNCHANGED outsideAsk

\* askLLM resolved: consume, logUsage, editReply(text).
idxLlmAnswered(content) ==
  /\ ask.impl = "index.js" /\ ask.pc = "llm" /\ ask.llm = "pending"
  /\ SetLimiter(consume(Limiter, ask.user, ask.isPro, ask.bypass))
  /\ ask' = [ask EXCEPT !.llm = "resolved", !.llmOut = "text",
                         !.completion = content, !.pc = "respond",
                         !.reply = [kind |-> "answer",
                                    text |-> handedOver(ask.impl, answerText(content))]]
  /\ UNCHANGED <<today, req, consumedToday>>
  /\ UNCHANGED outsideAsk

\* askLLM rejected: the catch replies with the error text.
idxLlmFailed(e) ==
  /\ ask.impl = "index.js" /\ ask.pc = "llm" /\ ask.llm = "pending"
  /\ e \in Errors
  /\ ask' = [ask EXCEPT !.llm = "rejected", !.llmOut = "failed", !.pc = "respond",
                         !.err = e, !.notice = noticeFor(e),
                         !.reply = [kind |-> "error", text |-> <<>>]]
  /\ UNCHANGED limiterVars
  /\ UNCHANGED outsideAsk

\* ---- part_004 and kb.js ----
\* The chat call under withTimeout, made with context c.
ragChat(a, c, s) ==
  [a EXCEPT !.context = c, !.llm = s, !.llmTimer = "armed", !.pc = "llm"]

\* ack settled: the pro check, the question, then the KB search under
\* withTimeout, or the chat call when the KB is not used or not ready.
ragAcked(allowed, hasQuestion, useKbOption, s) ==
  /\ ask.impl \in {"part_004", "kb.js"} /\ ask.pc = "ack"
  /\ s \in Made
  /\ LET useKb == IF ask.impl = "kb.js" THEN TRUE ELSE ask.isPro \/ useKbOption
     IN ask' =
          IF ask.isPro /\ ~allowed
            THEN [ask EXCEPT !.pc = "respond",
                             !.reply = [kind |-> "noperm", text |-> <<>>]]
          ELSE IF ask.impl = "part_004" /\ ~hasQuestion
            THEN [ask EXCEPT !.pc = "respond",
                             !.reply = [kind |-> "noquestion", text |-> <<>>]]
          ELSE IF useKb /\ KB_READY
            THEN [ask EXCEPT !.kb = s, !.kbTimer = "armed", !.pc = "kb"]
          ELSE ragChat([ask EXCEPT !.kbOut = "skipped"], "empty", s)
  /\ UNCHANGED limiterVars
  /\ UNCHANGED outsideAsk

\* kbSearch resolved before its timer: the timer is cleared, the context built.
ragKbFound(hasHits, s) ==
  /\ ask.impl \in {"part_004", "kb.js"} /\ ask.pc = "kb"
  /\ ask.kb = "pending" /\ ask.kbTimer = "armed"
  /\ s \in Made
  /\ ask' = ragChat([ask EXCEPT !.kb = "resolved", !.kbTimer = "cleared",
                                 !.kbOut = IF hasHits THEN "hits" ELSE "nohits"],
                     IF hasHits THEN "hits" ELSE "empty", s)
  /\ UNCHANGED limiterVars
  /\ UNCHANGED outsideAsk

\* kbSearch rejected before its timer: the catch logs; the context stays empty.
ragKbFailed(s) ==
  /\ ask.impl \in {"part_004", "kb.js"} /\ ask.pc = "kb"
  /\ ask.kb = "pending" /\ ask.kbTimer = "armed"
  /\ s \in Made
  /\ ask' = ragChat([ask EXCEPT !.kb = "rejected", !.kbTimer = "cleared",
                                 !.kbOut = "failed"], "empty", s)
  /\ UNCHANGED limiterVars
  /\ UNCHANGED outsideAsk

\* The KB_TIMEOUT_MS timer fires first: the same catch; the search goes on.
ragKbTimeout(s) ==
  /\ ask.impl \in {"part_004", "kb.js"} /\ ask.pc = "kb"
  /\ ask.kbTimer = "armed"
  /\ s \in Made
  /\ ask' = ragChat([ask EXCEPT !.kbTimer = "fired", !.kbOut = "timeout"], "empty", s)
  /\ UNCHANGED limiterVars
  /\ UNCHANGED outsideAsk

\* The chat call resolved before its timer: respond with the text, cut.
ragLlmAnswered(content) ==
  /\ ask.impl \in {"part_004", "kb.js"} /\ ask.pc = "llm"
  /\ ask.llm = "pending" /\ ask.llmTimer = "armed"
  /\ ask' = [ask EXCEPT !.llm = "resolved", !.llmTimer = "cleared", !.llmOut = "text",
                         !.completion = content, !.pc = "respond",
                         !.reply = [kind |-> "answer",
                                    text |-> handedOver(ask.impl, answerText(content))]]
  /\ UNCHANGED limiterVars
  /\ UNCHANGED outsideAsk

\* The chat call rejected before its timer: respond with the error.
ragLlmFailed ==
  /\ ask.impl \in {"part_004", "kb.js"} /\ ask.pc = "llm"
  /\ ask.llm = "pending" /\ ask.llmTimer = "armed"
  /\ ask' = [ask EXCEPT !.llm = "rejected", !.llmTimer = "cleared",
                         !.llmOut = "failed", !.pc = "respond",
                         !.reply = [kind |-> "error", text |-> <<>>]]
  /\ UNCHANGED limiterVars
  /\ UNCHANGED outsideAsk

\* The timer fires and nobody is told: the handler waits on.
ragLlmTimeoutUnheard ==
  /\ ask.impl \in {"part_004", "kb.js"} /\ ask.pc = "llm"
  /\ ask.llmTimer = "armed"
  /\ ask' = [ask EXCEPT !.llmTimer = "fired"]
  /\ UNCHANGED limiterVars
  /\ UNCHANGED outsideAsk

\* The LLM_TIMEOUT_MS timer fires first: respond with the timeout error.
ragLlmTimeout ==
  /\ ask.impl \in {"part_004", "kb.js"} /\ ask.pc = "llm"
  /\ ask.llmTimer = "armed"
  /\ ask' = [ask EXCEPT !.llmTimer = "fired", !.llmOut = "timeout", !.pc = "respond",
                         !.reply = [kind |-> "error", text |-> <<>>]]
  /\ UNCHANGED limiterVars
  /\ UNCHANGED outsideAsk

\* A call settles after its timer has fired: nobody is waiting for it, and
\* clearTimeout on the fired timer does nothing.
ragLateSettle(which, how) ==
  /\ ask.impl \in {"part_004", "kb.js"}
  /\ how \in {"resolved", "rejected"}
  /\ \/ /\ which = "kb" /\ ask.kb = "pending" /\ ask.kbTimer = "fired"
        /\ ask' = [ask EXCEPT !.kb = how]
     \/ /\ which = "llm" /\ ask.llm = "pending" /\ ask.llmTimer = "fired"
        /\ ask' = [ask EXCEPT !.llm = how]
  /\ UNCHANGED limiterVars
  /\ UNCHANGED outsideAsk

\* ---- all three: the reply settles and the handler ends ----
ansResponded ==
  /\ ask.pc = "respond"
  /\ ask' = [ask EXCEPT !.pc = "done", !.transport = "ok"]
  /\ UNCHANGED limiterVars
  /\ UNCHANGED outsideAsk

\* Whether a rejection of the transport's call is caught where the reply of
\* this kind is sent.  part_004 and kb.js reply through respond, which awaits
\* the call inside try/catch (part_004:90-105, kb.js:102-114).  index.js
\* returns the promise of interaction.reply (618, 629), editReply (652) or
\* safeReply (656, 664) without awaiting it, and safeReply returns the
\* transport's promise without awaiting it (64-66), so no catch sees their
\* rejection; only the outer catch awaits safeReply inside a try (675).
replyCaught(im, kind) == im # "index.js" \/ kind = "unexpected"

\* The transport's call (reply, editReply or followUp) rejects.
ansReplyFailed ==
  /\ ask.pc = "respond"
  /\ ask' = [ask EXCEPT !.transport = "failed",
                         !.pc = IF replyCaught(ask.impl, ask.reply.kind)
                                  THEN "done" ELSE "rejected"]
  /\ UNCHANGED limiterVars
  /\ UNCHANGED outsideAsk

AnswerInit ==
  /\ LimiterIdle
  /\ ChunkIdle
  /\ qdrant \in {"null", "client"}
  /\ KB_READY \in (IF qdrant = "client" THEN BOOLEAN ELSE {FALSE})
  /\ KbLocalsIdle
  /\ stored = <<>> /\ lagging = <<>> /\ nextId = 0 /\ ops = 0
  /\ \E im \in AnsImpls : ask = [NoAsk EXCEPT !.impl = im]
  /\ boot = NoBoot /\ wt = NoRace /\ ExtrasIdle

AnswerNext ==
  \/ \E u \in Users, pro \in BOOLEAN : ansCommand(u, pro)
  \/ \E hasProRole \in BOOLEAN, helperRole \in BOOLEAN : idxFetched(hasProRole, helperRole)
  \/ idxOuterCatch
  \/ \E s \in Made : idxDeferred(s)
  \/ \E hasHits \in BOOLEAN, s \in Made : idxKbFound(hasHits, s)
  \/ \E e \in Errors : idxKbFailed(e)
  \/ \E content \in Completions : idxLlmAnswered(content)
  \/ \E e \in Errors : idxLlmFailed(e)
  \/ \E allowed \in BOOLEAN, hasQuestion \in BOOLEAN, useKbOption \in BOOLEAN, s \in Made :
       ragAcked(allowed, hasQuestion, useKbOption, s)
  \/ \E hasHits \in BOOLEAN, s \in Made : ragKbFound(hasHits, s)
  \/ \E s \in Made : ragKbFailed(s)
  \/ \E s \in Made : ragKbTimeout(s)
  \/ \E content \in Completions : ragLlmAnswered(content)
  \/ ragLlmFailed
  \/ ragLlmTimeout
  \/ \E which \in {"kb", "llm"}, how \in {"resolved", "rejected"} : ragLateSettle(which, how)
  \/ ansResponded
  \/ ansReplyFailed

AnswerSpec == AnswerInit /\ [][AnswerNext]_vars

\* The event loop runs on: a call that is pending settles, an armed timer
\* fires unless it is cleared, and a resumed handler proceeds.
AnswerFairSpec == AnswerInit /\ [][AnswerNext]_vars /\ WF_vars(AnswerNext)

(***************************************************************************)
(* Properties of the answer path.                                          *)
(***************************************************************************)
\* C18: with the knowledge base enabled, a KB search that fails or does not
\* settle within the KB timeout does not fail the answer: the chat model is
\* called, with empty context, and when that call succeeds the request ends
\* with the chat model's answer.
C18_KbFailureTolerated ==
  ask.kbOut \in {"failed", "timeout"} =>
    /\ ask.llm # "none"
    /\ ask.context = "empty"
    /\ ask.llmOut = "text" => ask.reply.kind = "answer"
    /\ ask.reply.kind = "error" => ask.llmOut \in {"failed", "timeout"}

\* C19: a chat-model call that never settles ends the request with a timeout
\* failure once the timer has run out, and a provider error ends it with a
\* failure; in neither case is answer text delivered.
C19_ChatTimeout ==
  /\ [](ask.llm = "never" =>
          <>(ask.pc \in {"respond", "done"} /\ ask.llmOut = "timeout"
               /\ ask.reply.kind = "error"))
  /\ []((ask.llm \in {"never", "rejected"} \/ ask.llmOut \in {"timeout", "failed"}) =>
          ask.reply.kind # "answer")

\* C21: no rejection escapes a command handler: whatever external call fails
\* (chat model, embedding, store, or the transport's own reply, editReply or
\* followUp), the handler invocation finishes with its promise fulfilled and
\* never rejected.
C21_NoRejectionEscapes ==
  /\ ask.pc # "rejected"
  /\ ask.transport = "failed" => ask.pc = "done"

\* C20: every answer text handed to the transport for /ask or /ask-pro has at
\* most MaxPayload (1900) characters and neither starts nor ends with
\* whitespace, whatever the chat model's output.
C20_AnswerCutAndTrimmed ==
  ask.reply.kind = "answer" =>
    LET txt == ask.reply.text
    IN /\ Len(txt) <= MaxPayload
       /\ txt # <<>> => txt[1] # WS /\ txt[Len(txt)] # WS

\* C38: in part_004 and kb.js every /ask or /ask-pro reaches exactly one
\* respond call, whatever the KB search and the chat call do (resolve, reject
\* or never settle), the timers firing: once acknowledged, the request is
\* eventually responded to; the handler never ends without a response; and
\* after the respond call the handler only ends, with that same reply.
C38_RespondsOnce ==
  /\ []((ask.impl \in {"part_004", "kb.js"} /\ ask.pc = "ack") =>
          <>(ask.pc = "done" /\ ask.reply # NoReply))
  /\ []((ask.impl \in {"part_004", "kb.js"} /\ ask.pc \in {"done", "rejected"}) =>
          ask.pc = "done" /\ ask.reply # NoReply)
  /\ [][(ask.impl \in {"part_004", "kb.js"} /\ ask.reply # NoReply) =>
          /\ ask'.reply = ask.reply
          /\ ask'.pc # ask.pc => ask.pc = "respond" /\ ask'.pc = "done"]_vars

\* C38's case: neither the KB search nor the chat call ever settled, both
\* timers fired, and the request was responded to with the timeout error.
C38_Witness ==
  /\ ask.impl \in {"part_004", "kb.js"} /\ ask.pc = "done"
  /\ ask.kb = "never" /\ ask.kbTimer = "fired"
  /\ ask.llm = "never" /\ ask.llmTimer = "fired"
  /\ ask.reply.kind = "error"

Progs == {"index.js", "part_004", "kb.js"}
\* The two whose start-up is a function that can be called again.
Ensurers == {"index.js", "part_004"}
\* process.env.KB_COLLECTION || 'sg_kb'                   (qdrant.js:5)
KB_COLLECTION == "sg_kb"
CollectionNames == {KB_COLLECTION, "other"}

\* (list?.collections || []).some(c => c.name === KB_COLLECTION)   (qdrant.js:21)
existsAny(collections) == collections # {}
existsIgnored(collections) == FALSE
exists(collections) == KB_COLLECTION \in collections

\* The start-up is over with outcome o; part_004 and kb.js set KB_READY on
\* success, index.js only logs what kbReady returned.
bootEnds(o) ==
  /\ boot' = [boot EXCEPT !.pc = "done", !.ok = o]
  /\ KB_READY' = IF boot.prog # "index.js" /\ o = "true" THEN TRUE ELSE KB_READY

bootIssues(b, call, at) == [b EXCEPT !.pc = at, !.calls = Append(b.calls, call)]

bootFrame ==
  /\ UNCHANGED <<qdrant, kop, kpc, title, chunks, bi, inserted, points, calls,
                 result, stored, lagging, nextId, ops>>
  /\ UNCHANGED <<limiterVars, chunkVars, ask, wt, auto, imp>>

\* The start-up begins: without QDRANT_URL it is over at once (`if (!qdrant)
\* return false`, `if (!QDRANT_URL) return`); with it, getCollections is awaited.
bootCall ==
  /\ boot.pc = "idle" /\ boot.prog \in Progs
  /\ IF kbDisabled(qdrant)
       THEN bootEnds("false")
       ELSE boot' = bootIssues(boot, "getCollections", "list") /\ KB_READY' = KB_READY
  /\ bootFrame

\* getCollections resolved with the store's collections: return true /
\* KB_READY = true if ours is among them, otherwise await createCollection.
bootListed ==
  /\ boot.pc = "list"
  /\ IF exists(boot.colls)
       THEN bootEnds("true")
       ELSE boot' = bootIssues(boot, "createCollection", "create") /\ KB_READY' = KB_READY
  /\ bootFrame

\* getCollections rejected.  qdrant.js and part_004 catch it and give up;
\* kb.js turns it into `exists = null` (.catch(() => null)) and goes on to
\* createCollection.
bootListFailed ==
  /\ boot.pc = "list"
  /\ IF boot.prog = "kb.js"
       THEN /\ boot' = [bootIssues(boot, "createCollection", "create") EXCEPT !.failed = TRUE]
            /\ KB_READY' = KB_READY
       ELSE /\ boot' = [boot EXCEPT !.pc = "done", !.ok = "false", !.failed = TRUE]
            /\ KB_READY' = KB_READY
  /\ bootFrame

\* createCollection resolved: the collection exists; return true / KB_READY = true.
bootCreated ==
  /\ boot.pc = "create"
  /\ boot' = [boot EXCEPT !.pc = "done", !.ok = "true",
                          !.colls = boot.colls \cup {KB_COLLECTION},
                          !.created = boot.created + 1]
  /\ KB_READY' = IF boot.prog # "index.js" THEN TRUE ELSE KB_READY
  /\ bootFrame

\* createCollection rejected: the catch logs; return false / KB_READY stays false.
bootCreateFailed ==
  /\ boot.pc = "create"
  /\ boot' = [boot EXCEPT !.pc = "done", !.ok = "false", !.failed = TRUE]
  /\ KB_READY' = KB_READY
  /\ bootFrame

\* ensureKbCollection / initQdrant is called once more, after the run before
\* it has returned; the store keeps the collections it holds.
bootAgain ==
  /\ boot.pc = "done" /\ boot.prog \in Ensurers
  /\ boot.n < MaxBoots
  /\ boot' = [boot EXCEPT !.pc = "idle", !.ok = "none", !.failed = FALSE,
                          !.n = boot.n + 1, !.from = Len(boot.calls),
                          !.won = boot.won \/ boot.ok = "true"]
  /\ KB_READY' = KB_READY
  /\ bootFrame

\* The program p is up and takes commands.
Runs(p) == boot.pc = "done" /\ boot.prog \in p

StartupInit ==
  /\ LimiterIdle
  /\ ChunkIdle
  /\ qdrant \in {"null", "client"}
  /\ KB_READY = FALSE
  /\ KbLocalsIdle
  /\ stored = <<>> /\ lagging = <<>> /\ nextId = 0 /\ ops = 0
  /\ ask = NoAsk /\ wt = NoRace /\ ExtrasIdle
  /\ \E pr \in Progs, cs \in SUBSET CollectionNames :
       boot = [NoBoot EXCEPT !.prog = pr, !.colls = cs]

StartupNext ==
  \/ bootCall
  \/ bootListed
  \/ bootListFailed
  \/ bootCreated
  \/ bootCreateFailed
  \/ \E ti \in Titles, tx \in DocTexts : Runs({"index.js"}) /\ kbAddDocCall(ti, tx)
  \/ kbAddDocEmbed
  \/ kbAddDocEmbedded
  \/ \E applied \in BOOLEAN : kbAddDocUpserted(applied)
  \/ Runs({"index.js"}) /\ kbSearchCall("kbSearch")
  \/ Runs({"part_004", "kb.js"}) /\ kbSearchCall("kbSearch004")
  \/ kbSearchEmbedded
  \/ \E res \in Responses : kbSearchFound(res)
  \/ kbAwaitRejected
  \/ Runs({"part_004", "kb.js"}) /\ kbAddCommand
  \/ \E ti \in Titles, tx \in DocTexts : kbAddAcked(ti, tx)
  \/ kbAddChunked
  \/ kbAddEmbedded
  \/ kbAddEmbedFailed
  \/ \E applied \in BOOLEAN : kbAddUpserted(applied)
  \/ kbAddUpsertFailed
  \/ kbOpEnds
  \/ chunkTextCall
  \/ chunkJsLoop
  \/ part004Loop
  \/ chunkTextReturn
  \/ chunkTextOutOfMemory

StartupSpec == StartupInit /\ [][StartupNext]_vars

\* ensureKbCollection and initQdrant called over and over, one call after
\* another, against a store whose calls may fail.
EnsureInit == StartupInit /\ boot.prog \in Ensurers

EnsureNext ==
  \/ bootCall
  \/ bootListed
  \/ bootListFailed
  \/ bootCreated
  \/ bootCreateFailed
  \/ bootAgain

EnsureSpec == EnsureInit /\ [][EnsureNext]_vars

(***************************************************************************)
(* Properties of the start-up.                                             *)
(***************************************************************************)
\* C22: ensureKbCollection never throws: it returns false when no store is
\* configured (and then calls nothing) or when a store call, listing or
\* creating, fails, and true only when the collection exists after the call.
C22_EnsureFailsSoft ==
  (boot.prog = "index.js" /\ boot.pc = "done") =>
    /\ boot.ok \in {"true", "false"}
    /\ kbDisabled(qdrant) => boot.ok = "false" /\ boot.calls = <<>>
    /\ boot.failed => boot.ok = "false"
    /\ boot.ok = "true" => KB_COLLECTION \in boot.colls
    /\ (boot.ok = "false" /\ ~boot.failed) => kbDisabled(qdrant)

\* C22's case: the store held another collection but not ours;
\* ensureKbCollection listed, created ours and returned true.
C22_Witness ==
  /\ boot.prog = "index.js" /\ boot.pc = "done" /\ boot.ok = "true"
  /\ boot.calls = <<"getCollections", "createCollection">>
  /\ boot.colls = CollectionNames

\* C23: after ensureCollection has failed (store configured but unreachable)
\* the knowledge base is Disabled: every later kbSearch returns an empty list
\* and every later kbAddDoc returns ok: false (a /kb-add is refused), and
\* none of them sends a request to the store or to the embedding provider.
C23_DisabledAfterFailure ==
  (boot.pc = "done" /\ boot.ok = "false" /\ boot.failed) =>
    /\ calls = <<>>
    /\ kop \in {"kbSearch", "kbSearch004"} =>
         kpc = "returned" /\ result.kind = "value" /\ result.hits = <<>>
    /\ kop = "kbAddDoc" =>
         kpc = "returned" /\ result.kind = "value" /\ ~result.ok
    /\ kop = "kb-add" =>
         kpc \in {"ack", "respond"} /\ (kpc = "respond" => result.kind = "disabled")

\* The createCollection calls among the store calls q, and among those of
\* the run in progress.
Creates(q) == Cardinality({k \in 1 .. Len(q) : q[k] = "createCollection"})
ThisRun == SubSeq(boot.calls, boot.from + 1, Len(boot.calls))

\* C31: ensureKbCollection is idempotent: over any sequence of calls against
\* a store that keeps what it created, createCollection is issued at most
\* once, and every call after a successful one returns true without creating
\* anything.
C31_Idempotent ==
  boot.prog \in Ensurers =>
    /\ Creates(boot.calls) <= 1
    /\ (boot.won /\ boot.pc = "done") =>
         boot.ok = "true" /\ Creates(ThisRun) = 0

\* C31, amended: createCollection is issued only by a call whose listing
\* succeeded and did not contain the collection; over calls made one after
\* another against a store that keeps what it created at most one
\* createCollection succeeds, and every call after a successful one issues
\* no createCollection and returns true, unless its getCollections fails,
\* and then it returns false.
C31_IdempotentAmended ==
  /\ [](boot.prog \in Ensurers =>
          /\ boot.created <= 1
          /\ (boot.won /\ boot.pc = "done") =>
               /\ Creates(ThisRun) = 0
               /\ boot.ok = IF boot.failed \/ kbDisabled(qdrant) THEN "false" ELSE "true")
  /\ [][(boot.prog \in Ensurers /\ Creates(boot'.calls) > Creates(boot.calls)) =>
          /\ boot.pc = "list" /\ boot'.pc = "create"
          /\ ~boot.failed
          /\ KB_COLLECTION \notin boot.colls]_vars

\* A first call listed, created the collection and returned true; the call
\* after it listed only and returned true.
C31_Witness ==
  /\ boot.prog \in Ensurers /\ boot.pc = "done" /\ boot.ok = "true"
  /\ boot.won /\ boot.n = 1 /\ boot.created = 1
  /\ boot.calls = <<"getCollections", "createCollection", "getCollections">>

(***************************************************************************)
(* withTimeout(promise, ms, label): src/unnamed/part_004 lines 107-116 and *)
(* src/kb/kb.js lines 116-122, the same code.  One call is followed, at    *)
(* the grain of the event loop: a promise reaction (the finally callback,  *)
(* the reactions Promise.race put on its two inputs) is a microtask, and   *)
(* the microtasks that are due run before the next timer callback or I/O   *)
(* event.  The fields of `wt`:                                             *)
(*   pc          "idle" before the call, "called" after it                 *)
(*   label, ms   the arguments                                             *)
(*   p, outcome  the promise argument: "pending", "resolved", "rejected",  *)
(*               and the value or error it settled with                    *)
(*   fin         promise.finally(() => clearTimeout(timer))                *)
(*   timer       the timer of setTimeout: "armed", "cleared", "fired"      *)
(*   timeout     const timeout: "pending" or "rejected"                    *)
(*   finSeen, timeoutSeen   Promise.race's reaction to that input has run  *)
(*   race, result   the promise withTimeout returned: "pending",           *)
(*               "fulfilled", "rejected", and what it settled with         *)
(*   first       history: which happened first, "p" or "timer"             *)
(***************************************************************************)
Labels == {"kbSearch", "chatComplete", "embed"}
Durations == {"KB_TIMEOUT_MS", "LLM_TIMEOUT_MS"}
Settled == {"resolved", "rejected"}
\* What a promise settles with: a value when resolved, an error when rejected.
Outcomes(how) ==
  IF how = "resolved"
    THEN {[kind |-> "value", of |-> v, after |-> ""] : v \in {"v1", "v2"}}
    ELSE {[kind |-> "error", of |-> e, after |-> ""] : e \in {"e1", "e2"}}
\* new Error(`${label} timed out after ${ms}ms`)
TimeoutError(label, ms) == [kind |-> "timeout", of |-> label, after |-> ms]

\* clearTimeout(timer): an armed timer is cancelled, another one is left alone.
clearTimeoutForgotten(timer) == timer
clearTimeout(timer) == IF timer = "armed" THEN "cleared" ELSE timer

\* A promise reaction is due.
MicrotaskDue ==
  \/ wt.p \in Settled /\ wt.fin = "pending"
  \/ wt.fin \in Settled /\ ~wt.finSeen
  \/ wt.timeout = "rejected" /\ ~wt.timeoutSeen

outsideWt == <<limiterVars, chunkVars, kbVars, ask, boot, auto, imp>>

\* withTimeout is called with a promise that is pending or already settled:
\* the timer is set, finally and race put their reactions on.
wtCall(label, ms, how, o) ==
  /\ wt.pc = "idle"
  /\ how \in Settled \cup {"pending"}
  /\ o \in (IF how = "pending" THEN {NoOutcome} ELSE Outcomes(how))
  /\ wt' = [wt EXCEPT !.pc = "called", !.label = label, !.ms = ms,
                       !.p = how, !.outcome = o, !.timer = "armed",
                       !.first = IF how = "pending" THEN "none" ELSE "p"]
  /\ UNCHANGED outsideWt

\* The underlying operation completes: the promise settles.
wtSettles(how, o) ==
  /\ wt.pc = "called" /\ wt.p = "pending" /\ ~MicrotaskDue
  /\ how \in Settled /\ o \in Outcomes(how)
  /\ wt' = [wt EXCEPT !.p = how, !.outcome = o,
                       !.first = IF wt.first = "none" THEN "p" ELSE wt.first]
  /\ UNCHANGED outsideWt

\* The finally callback runs: clearTimeout(timer); the derived promise
\* settles as the promise did.
wtFinally ==
  /\ wt.p \in Settled /\ wt.fin = "pending"
  /\ wt' = [wt EXCEPT !.timer = clearTimeout(wt.timer), !.fin = wt.p]
  /\ UNCHANGED outsideWt

\* race's reaction to the derived promise: it settles the returned promise
\* if that is still pending.
wtFinSeen ==
  /\ wt.fin \in Settled /\ ~wt.finSeen
  /\ wt' = IF wt.race = "pending"
             THEN [wt EXCEPT !.finSeen = TRUE, !.result = wt.outcome,
                             !.race = IF wt.fin = "resolved" THEN "fulfilled"
                                                              ELSE "rejected"]
             ELSE [wt EXCEPT !.finSeen = TRUE]
  /\ UNCHANGED outsideWt

\* The timer's callback runs: rej(new Error(...)).
wtTimerFires ==
  /\ wt.timer = "armed" /\ ~MicrotaskDue
  /\ wt' = [wt EXCEPT !.timer = "fired", !.timeout = "rejected",
                       !.first = IF wt.first = "none" THEN "timer" ELSE wt.first]
  /\ UNCHANGED outsideWt

\* race's reaction to the timeout promise.
wtTimeoutSeen ==
  /\ wt.timeout = "rejected" /\ ~wt.timeoutSeen
  /\ wt' = IF wt.race = "pending"
             THEN [wt EXCEPT !.timeoutSeen = TRUE, !.race = "rejected",
                             !.result = TimeoutError(wt.label, wt.ms)]
             ELSE [wt EXCEPT !.timeoutSeen = TRUE]
  /\ UNCHANGED outsideWt

TimeoutInit ==
  /\ LimiterIdle
  /\ ChunkIdle
  /\ KbIdle
  /\ ask = NoAsk /\ boot = NoBoot
  /\ wt = NoRace /\ ExtrasIdle

TimeoutNext ==
  \/ \E label \in Labels, ms \in Durations, how \in Settled \cup {"pending"},
        o \in Outcomes("resolved") \cup Outcomes("rejected") \cup {NoOutcome} :
       wtCall(label, ms, how, o)
  \/ \E how \in Settled, o \in Outcomes("resolved") \cup Outcomes("rejected") :
       wtSettles(how, o)
  \/ wtFinally
  \/ wtFinSeen
  \/ wtTimerFires
  \/ wtTimeoutSeen

TimeoutSpec == TimeoutInit /\ [][TimeoutNext]_vars

\* The event loop runs on: due reactions run, and an armed timer fires.  The
\* promise itself need not ever settle.
TimeoutFairSpec ==
  /\ TimeoutInit /\ [][TimeoutNext]_vars
  /\ WF_vars(wtFinally) /\ WF_vars(wtFinSeen)
  /\ WF_vars(wtTimerFires) /\ WF_vars(wtTimeoutSeen)

(***************************************************************************)
(* Properties of withTimeout.                                              *)
(***************************************************************************)
\* C30: withTimeout(p, ms) settles exactly once, with the outcome of
\* whichever happens first.  If p settles first the result is p's value or
\* error, the timer is cleared and no timeout rejection ever occurs.  If the
\* timer expires first the result is a timeout rejection, and p's later
\* settlement neither changes the result nor leaves a timer pending.
C30_WithTimeoutRace ==
  /\ [](wt.pc = "called" => <>(wt.race # "pending"))
  /\ [][wt.race # "pending" => wt'.race = wt.race /\ wt'.result = wt.result]_vars
  /\ [](wt.first = "p" =>
          /\ wt.timeout = "pending" /\ wt.timer # "fired"
          /\ wt.fin \in Settled => wt.timer = "cleared"
          /\ wt.race # "pending" =>
               /\ wt.result = wt.outcome
               /\ wt.race = (IF wt.p = "resolved" THEN "fulfilled" ELSE "rejected"))
  /\ [](wt.first = "timer" =>
          /\ wt.timer = "fired"
          /\ wt.race # "pending" =>
               wt.race = "rejected" /\ wt.result = TimeoutError(wt.label, wt.ms))

\* C30's case: the timer expired first and the call was rejected with the
\* timeout; the promise, not cancelled, resolved afterwards, its reactions
\* ran, and the result is still the timeout.
C30_Witness ==
  /\ wt.first = "timer" /\ wt.timer = "fired"
  /\ wt.p = "resolved" /\ wt.finSeen
  /\ wt.race = "rejected" /\ wt.result = TimeoutError(wt.label, wt.ms)

(***************************************************************************)
(* The status monitor of src/index.js: buildStatusSummary (280-300),       *)
(* postIfChanged in startAutoStatus (301-318) and the /status command      *)
(* (457-461).  One run of postIfChanged at a time and one /status command  *)
(* at a time are followed; both query the sources in their order and write *)
(* the one lastStatus map.  The fields of `auto`:                          *)
(*   up          whether each source answers now                           *)
(*   lastStatus  const lastStatus: source -> "true", "false", or "unset"   *)
(*   pc, k       postIfChanged: "idle", or "query" while buildStatusSummary*)
(*               awaits the query of source number k                       *)
(*   before      const before = new Map(lastStatus)                        *)
(*   cmd         /status: the number of the source it is querying, or 0    *)
(*   seen, prev  history: what the queries of the run in progress or last  *)
(*               completed returned, and those of the run before it        *)
(*   posted      history: the last completed run sent the message          *)
(*   runs, cmds, flips   history: runs completed, commands, changes        *)
(***************************************************************************)
outsideAuto == <<limiterVars, chunkVars, kbVars, ask, boot, wt, imp>>

\* r.ok as lastStatus stores it
okOf(s) == IF auto.up[s] THEN "true" ELSE "false"

\* let changed = !before.size; for (const [k, v] of lastStatus)
\*   if (before.get(k) !== v) { changed = true; break; }    (index.js:308-311)
changedSince(before, now) ==
  \/ before = Unset
  \/ \E s \in SourceSet : now[s] # "unset" /\ before[s] # now[s]

\* A source goes down or comes back.
sourceFlips(s) ==
  /\ auto.flips < MaxFlips
  /\ auto' = [auto EXCEPT !.up[s] = ~auto.up[s], !.flips = auto.flips + 1]
  /\ UNCHANGED outsideAuto

\* The timer calls postIfChanged; the channel is fetched, lastStatus is
\* copied, and buildStatusSummary awaits the query of the first source.
postIfChangedCall ==
  /\ auto.pc = "idle" /\ auto.runs < MaxRuns
  /\ auto' = [auto EXCEPT !.pc = "query", !.k = 1, !.before = auto.lastStatus,
                          !.prev = auto.seen, !.seen = Unset]
  /\ UNCHANGED outsideAuto

\* The run's query of source k answered: lastStatus.set(key, r.ok), then the
\* next query, or the comparison with `before` and chan.send if changed.
postIfChangedQueried ==
  /\ auto.pc = "query"
  /\ LET s == Sources[auto.k]
         now == [auto.lastStatus EXCEPT ![s] = okOf(s)]
     IN auto' = IF auto.k < Len(Sources)
                  THEN [auto EXCEPT !.lastStatus = now, !.seen[s] = okOf(s),
                                    !.k = auto.k + 1]
                  ELSE [auto EXCEPT !.lastStatus = now, !.seen[s] = okOf(s),
                                    !.pc = "idle", !.k = 0,
                                    !.posted = changedSince(auto.before, now),
                                    !.runs = auto.runs + 1]
  /\ UNCHANGED outsideAuto

\* /status arrives: deferReply, then buildStatusSummary's first query.
statusCommand ==
  /\ auto.cmd = 0 /\ auto.cmds < MaxCmds
  /\ auto' = [auto EXCEPT !.cmd = 1, !.cmds = auto.cmds + 1]
  /\ UNCHANGED outsideAuto

\* The command's query answered: lastStatus.set(key, r.ok), then the next
\* query, or editReply(text).
statusQueried ==
  /\ auto.cmd > 0
  /\ LET s == Sources[auto.cmd]
     IN auto' = [auto EXCEPT !.lastStatus[s] = okOf(s),
                             !.cmd = IF auto.cmd < Len(Sources) THEN auto.cmd + 1 ELSE 0]
  /\ UNCHANGED outsideAuto

StatusInit ==
  /\ LimiterIdle
  /\ ChunkIdle
  /\ KbIdle
  /\ ask = NoAsk /\ boot = NoBoot /\ wt = NoRace /\ imp = NoImp
  /\ \E u \in [SourceSet -> BOOLEAN] : auto = [NoAuto EXCEPT !.up = u]

StatusNext ==
  \/ \E s \in SourceSet : sourceFlips(s)
  \/ postIfChangedCall
  \/ postIfChangedQueried
  \/ statusCommand
  \/ statusQueried

StatusSpec == StatusInit /\ [][StatusNext]_vars

\* C37: at each run of postIfChanged the status message is posted if and only
\* if it is the first run or a source's up/down state, as the run's queries
\* found it, differs from what the previous automatic run found, /status
\* commands writing lastStatus in between or not.
C37_PostsEveryChange ==
  (auto.runs >= 1 /\ auto.pc = "idle") =>
    (auto.posted <=> (auto.runs = 1 \/ auto.seen # auto.prev))

(***************************************************************************)
(* /kb-import-pins of src/index.js (lines 575-609), one command followed.  *)
(* Each pinned message is from a bot ("bot"), has no text once trimmed      *)
(* ("empty"), or has text ("text"); for the last kind the handler awaits   *)
(* kbAddDoc of part_001, which is the operation modelled above.  The       *)
(* fields of `imp`:                                                        *)
(*   pc      "idle", "loop" (at the head of the for loop), "add" (at       *)
(*           await kbAddDoc), "counted" (after ok++ or fail++), "replied"  *)
(*   list, k the pinned messages and the number of the one at hand         *)
(*   ok, fail  let ok = 0, fail = 0                                        *)
(*   kept    history: the pins whose kbAddDoc upserted their chunks        *)
(*   reply   what was handed to editReply                                  *)
(***************************************************************************)
PinKinds == {"bot", "empty", "text"}
PinLists == UNION {[1 .. n -> PinKinds] : n \in 0 .. MaxPins}
TextPins(ps) == Cardinality({k \in 1 .. Len(ps) : ps[k] = "text"})

outsideImp == <<limiterVars, chunkVars, kbVars, ask, boot, wt, auto>>

\* deferReply settled; the permission check, then fetchPinned resolved to ps.
pinsFetched(admin, ps) ==
  /\ imp.pc = "idle"
  /\ imp' = IF ~admin
              THEN [imp EXCEPT !.pc = "replied", !.reply = "adminonly"]
            ELSE IF ps = <<>>
              THEN [imp EXCEPT !.pc = "replied", !.reply = "nopins"]
            ELSE [imp EXCEPT !.pc = "loop", !.list = ps, !.k = 1]
  /\ UNCHANGED outsideImp

\* fetchPinned rejected: the catch replies with the error.
pinsFetchFailed ==
  /\ imp.pc = "idle"
  /\ imp' = [imp EXCEPT !.pc = "replied", !.reply = "error"]
  /\ UNCHANGED outsideImp

\* The head of `for (const msg of pins.values())`: a bot's pin or one without
\* text is passed over; for one with text kbAddDoc is called; after the last
\* the two counts are reported.
pinNext ==
  /\ imp.pc \in {"loop", "counted"} /\ kpc = "idle"
  /\ imp' = IF imp.k > Len(imp.list)
              THEN [imp EXCEPT !.pc = "replied", !.reply = "summary"]
            ELSE IF imp.list[imp.k] = "text"
              THEN [imp EXCEPT !.pc = "add"]
            ELSE [imp EXCEPT !.pc = "loop", !.k = imp.k + 1]
  /\ UNCHANGED outsideImp

\* await kbAddDoc settled: ok++ whatever it returned, fail++ if it threw.
pinSettled ==
  /\ imp.pc = "add" /\ kop = "kbAddDoc" /\ kpc \in {"returned", "threw"}
  /\ imp' = IF kpc = "returned"
              THEN [imp EXCEPT !.pc = "counted", !.k = imp.k + 1, !.ok = imp.ok + 1,
                               !.kept = imp.kept + (IF result.ok THEN 1 ELSE 0)]
              ELSE [imp EXCEPT !.pc = "counted", !.k = imp.k + 1,
                               !.fail = imp.fail + 1]
  /\ UNCHANGED outsideImp

ImportInit ==
  /\ LimiterIdle
  /\ ChunkIdle
  /\ qdrant \in {"null", "client"}
  /\ KB_READY = FALSE
  /\ KbLocalsIdle
  /\ stored = <<>> /\ lagging = <<>> /\ nextId = 0 /\ ops = 0
  /\ OthersIdle

ImportNext ==
  \/ \E admin \in BOOLEAN, ps \in PinLists : pinsFetched(admin, ps)
  \/ pinsFetchFailed
  \/ pinNext
  \/ \E ti \in Titles, tx \in DocTexts \ {<<>>} : imp.pc = "add" /\ kbAddDocCall(ti, tx)
  \/ pinSettled
  \/ imp.pc = "counted" /\ kbOpEnds
  \/ chunkTextCall
  \/ chunkJsLoop
  \/ chunkTextOutOfMemory

ImportSpec == ImportInit /\ [][ImportNext]_vars

\* C39: /kb-import-pins reports as OK exactly the number of pinned messages
\* whose chunks were upserted into the store, and every pin with text is
\* counted once, as OK or as an error; pins from bots or without text are
\* counted in neither number.
C39_OkCountsStored ==
  imp.reply = "summary" =>
    /\ imp.ok = imp.kept
    /\ imp.ok + imp.fail = TextPins(imp.list)

====
